---- MODULE Spec2Model ----
(***************************************************************************)
(* The Hatchery: the simulation engine (rng.ts, state.ts, effects.ts,      *)
(* generator.ts, reducer.ts) and the store of GameProvider.tsx that holds  *)
(* its run state, as a state machine.                                      *)
(*                                                                         *)
(* The run state is one record, replaced wholesale by every dispatch.  The *)
(* two ambient values the engine reads, the wall clock Date.now() and the  *)
(* module-level idCounter of generator.ts, are variables of their own, as  *)
(* are the generator objects of rng.ts that a caller holds, the state that *)
(* the ElectionNight screen keeps of its delegate rolls, and the content   *)
(* bundle that GameProvider loads and the event selection reads.           *)
(***************************************************************************)
EXTENDS Integers, Sequences, FiniteSets, TLC

(***************************************************************************)
(* 32-bit arithmetic of rng.ts.  A 32-bit word is a pair <<hi, lo>> of     *)
(* 16-bit halves, so that no intermediate value leaves the integer range.  *)
(***************************************************************************)
H == 65536

RECURSIVE XorBits(_, _, _)
XorBits(x, y, n) ==
  IF n = 0 THEN 0
  ELSE ((x + y) % 2) + 2 * XorBits(x \div 2, y \div 2, n - 1)

RECURSIVE OrBits(_, _, _)
OrBits(x, y, n) ==
  IF n = 0 THEN 0
  ELSE (IF x % 2 = 1 \/ y % 2 = 1 THEN 1 ELSE 0) + 2 * OrBits(x \div 2, y \div 2, n - 1)

\* x ^ y on bytes, tabulated once
XorTab == [x \in 0..255 |-> [y \in 0..255 |-> XorBits(x, y, 8)]]

Xor16(x, y) ==
  XorTab[x \div 256][y \div 256] * 256 + XorTab[x % 256][y % 256]

\* a ^ b
Xor32(a, b) == <<Xor16(a[1], b[1]), Xor16(a[2], b[2])>>

\* a | k for a small constant k < 65536
Or32(a, k) == <<a[1], OrBits(a[2], k, 16)>>

\* (a + b) mod 2^32
Add32(a, b) ==
  LET lo == a[2] + b[2]
  IN  <<(a[1] + b[1] + lo \div H) % H, lo % H>>

\* a >>> k, 0 < k < 16
RECURSIVE Pow2(_)
Pow2(k) == IF k = 0 THEN 1 ELSE 2 * Pow2(k - 1)

Shr32(a, k) ==
  LET d == Pow2(k)
  IN  <<a[1] \div d, (a[1] % d) * (H \div d) + a[2] \div d>>

\* the 32-bit product of two 16-bit halves, as <<hi, lo>>
Mul16(x, y) ==
  LET p == x * (y \div 256)
      q == x * (y % 256)
      s == (p % 256) * 256 + q
  IN  <<(p \div 256 + s \div H) % H, s % H>>

\* Math.imul(a, b): the low 32 bits of the product
Imul(a, b) ==
  LET ll == Mul16(a[2], b[2])
      hl == Mul16(a[1], b[2])
      lh == Mul16(a[2], b[1])
  IN  <<(ll[1] + hl[2] + lh[2]) % H, ll[2]>>

\* x >>> 0 of a number in the signed or unsigned 32-bit range
ToU32(x) == <<(x \div H) % H, x % H>>

\* x | 0: the signed reading of a word
ToInt32(a) == IF a[1] >= 32768 THEN (a[1] - H) * H + a[2] ELSE a[1] * H + a[2]

\* 0x6D2B79F5
MulberryInc == <<27947, 31221>>

\* One call of next() on a generator whose state is a: the new state a (as
\* getCursor() returns it) and the 32-bit numerator u of the float u / 2^32.
\* let t = Math.imul(a ^ a >>> 15, 1 | a)
NextT(a) == Imul(Xor32(a, Shr32(a, 15)), Or32(a, 1))

\* t ^= t + Math.imul(t ^ t >>> 7, 61 | t)
NextT2(t) == Xor32(t, Add32(t, Imul(Xor32(t, Shr32(t, 7)), Or32(t, 61))))

\* (t ^ t >>> 14) >>> 0
NextU(t) == Xor32(t, Shr32(t, 14))

\* the rest of next() once a has taken its increment
NextFrom(a) == [cursor |-> ToInt32(a), u |-> NextU(NextT2(NextT(a)))]

RngNext(a) == NextFrom(Add32(ToU32(a), MulberryInc))

\* The results of the next n calls of next() on a generator in state a: what
\* a function that is handed the generator will draw from it
RECURSIVE RngStream(_, _)
RECURSIVE RngStreamAfter(_, _)
RngStreamAfter(r, n) == <<r>> \o RngStream(r.cursor, n)

RngStream(a, n) ==
  IF n = 0 THEN <<>> ELSE RngStreamAfter(RngNext(a), n - 1)

\* floor((u / 2^32) * n) for 0 < n <= 256
ScaleU(u, n) == (u[1] * n + (u[2] * n) \div H) \div H

\* nextInt(min, max) after the draw r
RngInt(r, min, max) == ScaleU(r.u, max - min + 1) + min


\* pick(items) on a list of n items: the 0-based index nextInt(0, n - 1)
RngPick(r, n) == RngInt(r, 0, n - 1)

\* weightedPick: 1-based index of the first item at which the roll
\* next() * totalWeight, reduced by the weights so far, is <= 0; the last
\* item when none is.  roll - cum <= 0 iff u * total <= cum * 2^32.
RECURSIVE SumSeq(_)
SumSeq(w) == IF w = <<>> THEN 0 ELSE Head(w) + SumSeq(Tail(w))

RECURSIVE WeightedScan(_, _, _, _, _)
WeightedScan(q, exact, w, i, cum) ==
  IF i > Len(w) THEN Len(w)
  ELSE LET c == cum + w[i]
       IN  IF q < c \/ (q = c /\ exact) THEN i
           ELSE WeightedScan(q, exact, w, i + 1, c)

RngWeighted(r, w) ==
  LET total == SumSeq(w)
      lo    == r.u[2] * total
      s     == r.u[1] * total + lo \div H
  IN  WeightedScan(s \div H, s % H = 0 /\ lo % H = 0, w, 1, 0)

\* the most calls of next() that generateUnionName, generateUnionStats and
\* generateFederationName make
NameDraws == 4
StatsDraws == 5
FederationNameDraws == 4

\* next() > 0.5
RngOverHalf(r) == r.u[1] > 32768 \/ (r.u[1] = 32768 /\ r.u[2] > 0)

\* A generator object.  Its closure variable a is a number that is unsigned
\* after createRNG (seed >>> 0) and signed after a call of next() (| 0): the
\* number is kept as its 32-bit word and its sign.
JsNumber(i) == [neg |-> i < 0, w |-> ToU32(i)]

\* let a = seed >>> 0
createRNG(seed) == [neg |-> FALSE, w |-> seed.w]

\* a generator that discards one draw when it is made
createRNGWarm(seed) == JsNumber(RngNext(ToInt32(seed.w)).cursor)

getCursor(a) == a

\* const result = [...items]; for (i = length - 1; i > 0; i--) swap i and
\* nextInt(0, i), the draws being those the generator yields from draw d on
RECURSIVE ShuffleLoop(_, _, _, _)
ShuffleLoop(result, i, draws, d) ==
  IF i <= 0 THEN result
  ELSE ShuffleLoop([result EXCEPT ![i + 1] = result[RngInt(draws[d], 0, i) + 1],
                                  ![RngInt(draws[d], 0, i) + 1] = result[i + 1]],
                   i - 1, draws, d + 1)

shuffle(items, draws) == ShuffleLoop(items, Len(items) - 1, draws, 1)

pickN(items, n, draws) == SubSeq(shuffle(items, draws), 1, n)

\* the calls of next() that an operation makes
DrawCount(op) ==
  CASE op.name \in {"next", "nextInt", "pick", "weightedPick"} -> 1
    [] op.name \in {"shuffle", "pickN"} -> IF Len(op.items) > 1 THEN Len(op.items) - 1 ELSE 0

\* what the operation returns, given the draws the generator yields
OutOf(op, draws) ==
  CASE op.name = "next" -> draws[1].u
    [] op.name = "nextInt" -> RngInt(draws[1], op.min, op.max)
    [] op.name = "pick" -> op.items[RngPick(draws[1], Len(op.items)) + 1]
    [] op.name = "weightedPick" -> op.items[RngWeighted(draws[1], op.weights)]
    [] op.name = "shuffle" -> shuffle(op.items, draws)
    [] op.name = "pickN" -> pickN(op.items, op.n, draws)

\* the generator's a after the draws
AfterDraws(a, draws) ==
  IF draws = <<>> THEN a ELSE JsNumber(draws[Len(draws)].cursor)

Applied(op, a, draws) == [a |-> AfterDraws(a, draws), out |-> OutOf(op, draws)]

\* one operation on a generator whose closure variable holds a
ApplyOp(op, a) == Applied(op, a, RngStream(ToInt32(a.w), DrawCount(op)))

\* one variable a for all generators
CellShared(g) == "g1"

\* The variable a that the functions of generator g close over: each call of
\* createRNG has its own
Cell(g) == g

(***************************************************************************)
(* state.ts                                                                *)
(***************************************************************************)
Null == "null"

\* An optional field of an action: absent (undefined), or present with a value
Undefined == {}
Some(x) == {x}
ValueOf(opt) == CHOOSE x \in opt : TRUE

DEFAULT_RESOURCES ==
  [paperwork |-> 3, patronage |-> 5, legitimacy |-> 70, auditRisk |-> 10,
   streetHeat |-> 5]

createInitialState(actualSeed, showTips) ==
  [seed |-> actualSeed, rngCursor |-> actualSeed, cycle |-> 1, maxCycles |-> 5,
   phase |-> "menu", resources |-> DEFAULT_RESOURCES, unions |-> <<>>,
   federations |-> <<>>, eventHistory |-> <<>>, currentEventId |-> Null,
   unlockedFootnotes |-> <<>>, ending |-> Null, showTips |-> showTips,
   unionsGeneratedInCycle |-> FALSE]

\* Object.values(record): the entries of a keyed collection
Values(f) == {f[k] : k \in DOMAIN f}

getTotalDelegates(s) ==
  LET rec == {k \in DOMAIN s.federations :
                s.federations[k].recognition = "recognized"}
      RECURSIVE Sum(_)
      Sum(K) == IF K = {} THEN 0
                ELSE LET k == CHOOSE x \in K : TRUE
                     IN  s.federations[k].delegates + Sum(K \ {k})
  IN  Sum(rec)

\* a check that lets legitimacy 0 pass
checkLoseConditionBelowZero(s) ==
  IF s.resources.legitimacy < 0 THEN "legitimacy"
  ELSE IF s.resources.auditRisk >= 100 THEN "audit"
  ELSE IF s.resources.streetHeat >= 100 THEN "street"
  ELSE Null

checkLoseCondition(s) ==
  IF s.resources.legitimacy <= 0 THEN "legitimacy"
  ELSE IF s.resources.auditRisk >= 100 THEN "audit"
  ELSE IF s.resources.streetHeat >= 100 THEN "street"
  ELSE Null

Min(a, b) == IF a < b THEN a ELSE b
Max(a, b) == IF a > b THEN a ELSE b

\* a chance that ignores the union's plausibility
getLicenseChanceFlat(union) == 30

\* Math.floor(x * 0.6) and Math.floor(x * 0.35) for an integer stat 0..100
getLicenseChance(union) == Min(95, 30 + (union.plausibility * 6) \div 10)

\* a crack risk that ignores the union's integrity
getCrackRiskFlat(union) == 5

getCrackRisk(union) == Max(5, 40 - (union.integrity * 35) \div 100)

getDissolveReward(union) == 1 + union.plausibility \div 30

getReassignReward(union) == 1 + union.loyalty \div 25

\* federation.unionIds.map(id => unions[id]).filter(Boolean)
memberUnions(fed, unions) ==
  LET present == SelectSeq(fed.unionIds, LAMBDA id : id \in DOMAIN unions)
  IN  [i \in DOMAIN present |-> unions[present[i]]]

RECURSIVE SumLoyalty(_)
SumLoyalty(members) ==
  IF members = <<>> THEN 0 ELSE Head(members).loyalty + SumLoyalty(Tail(members))

\* getFederationReliability returns (avgLoyalty / 100) * 2 and the election
\* screen turns it back with (reliability / 2) * 100.  In double arithmetic
\* the round trip of an integer average 0..100 gives the average back or a
\* value just above it, except for these, which come back just below
\* (29 gives 28.999999999999996); an average that is no integer keeps its
\* integer part.
RoundsBelow == {29, 57, 58}

\* roll <= loyaltyPercent with a comparison that leaves out the bound
RollSucceedsStrict(roll, sum, len) == len > 0 /\ roll * len < sum

\* roll <= loyaltyPercent for an integer roll, the members' loyalties adding
\* up to sum over len members (no member: reliability 0)
RollSucceeds(roll, sum, len) ==
  IF len = 0 THEN roll <= 0
  ELSE IF sum % len = 0 /\ (sum \div len) \in RoundsBelow THEN roll * len < sum
  ELSE roll * len <= sum

(***************************************************************************)
(* effects.ts                                                              *)
(***************************************************************************)
CLAMPS ==
  [paperwork    |-> [min |-> 0, max |-> 10],
   patronage    |-> [min |-> 0, max |-> 20],
   legitimacy   |-> [min |-> 0, max |-> 100],
   auditRisk    |-> [min |-> 0, max |-> 100],
   streetHeat   |-> [min |-> 0, max |-> 100],
   plausibility |-> [min |-> 0, max |-> 100],
   loyalty      |-> [min |-> 0, max |-> 100],
   integrity    |-> [min |-> 0, max |-> 100]]

\* clamp that keeps only the lower bound
clampNoMax(value, min, max) == Max(min, value)

clamp(value, min, max) == Max(min, Min(max, value))

\* effects.k ?? 0 for a Partial<Resources>
Delta(effects, k) == IF k \in DOMAIN effects THEN effects[k] ELSE 0

applyResourceEffects(resources, effects) ==
  [k \in DOMAIN resources |->
     clamp(resources[k] + Delta(effects, k), CLAMPS[k].min, CLAMPS[k].max)]

\* Object.keys(state.unions): insertion order, which is the order of the
\* idCounter part of the ids (generateId numbers the unions as they are made)
RECURSIVE KeyOrder(_)
KeyOrder(ids) ==
  IF ids = {} THEN <<>>
  ELSE LET first == CHOOSE i \in ids : \A j \in ids : i[2] <= j[2]
       IN  <<first>> \o KeyOrder(ids \ {first})

IsShell(u) ==
  \E i \in DOMAIN u.tags : u.tags[i] = "compliant" \/ u.tags[i] = "shell"

\* an upkeep that only tops paperwork up: nothing is taken away above 6
calculateUpkeepTopUp(s) ==
  LET unionCount      == Cardinality(DOMAIN s.unions)
      federationCount == Cardinality(DOMAIN s.federations)
      shellCount      == Cardinality({k \in DOMAIN s.unions : IsShell(s.unions[k])})
      auditIncrease   == unionCount \div 5 + federationCount + shellCount
      paperworkRefresh == Max(0, 6 - s.resources.paperwork)
      patronageIncome == 7 + getTotalDelegates(s) * 1
      streetHeatDecay == IF s.resources.streetHeat > 0 THEN -2 ELSE 0
      legitimacyDecay == IF shellCount > 2 THEN -(shellCount - 2) ELSE 0
  IN  [paperwork |-> paperworkRefresh, patronage |-> patronageIncome,
       auditRisk |-> auditIncrease, streetHeat |-> streetHeatDecay,
       legitimacy |-> legitimacyDecay]

\* an upkeep that counts as shells only the unions still licensed
calculateUpkeepLicensedShells(s) ==
  LET unionCount      == Cardinality(DOMAIN s.unions)
      federationCount == Cardinality(DOMAIN s.federations)
      shellCount      == Cardinality({k \in DOMAIN s.unions :
                            IsShell(s.unions[k]) /\ s.unions[k].isLicensed})
      auditIncrease   == unionCount \div 5 + federationCount + shellCount
      paperworkRefresh == 6 - s.resources.paperwork
      patronageIncome == 7 + getTotalDelegates(s) * 1
      streetHeatDecay == IF s.resources.streetHeat > 0 THEN -2 ELSE 0
      legitimacyDecay == IF shellCount > 2 THEN -(shellCount - 2) ELSE 0
  IN  [paperwork |-> paperworkRefresh, patronage |-> patronageIncome,
       auditRisk |-> auditIncrease, streetHeat |-> streetHeatDecay,
       legitimacy |-> legitimacyDecay]

calculateUpkeep(s) ==
  LET unionCount      == Cardinality(DOMAIN s.unions)
      federationCount == Cardinality(DOMAIN s.federations)
      shellCount      == Cardinality({k \in DOMAIN s.unions : IsShell(s.unions[k])})
      auditIncrease   == unionCount \div 5 + federationCount + shellCount
      paperworkRefresh == 6 - s.resources.paperwork
      patronageIncome == 7 + getTotalDelegates(s) * 1
      streetHeatDecay == IF s.resources.streetHeat > 0 THEN -2 ELSE 0
      legitimacyDecay == IF shellCount > 2 THEN -(shellCount - 2) ELSE 0
  IN  [paperwork |-> paperworkRefresh, patronage |-> patronageIncome,
       auditRisk |-> auditIncrease, streetHeat |-> streetHeatDecay,
       legitimacy |-> legitimacyDecay]

\* crack checks that leave the licence of a cracked union in place
RECURSIVE CrackLoopKeepingLicence(_, _, _, _, _)
CrackLoopKeepingLicence(keys, a, unions, legitimacyPenalty, auditPenalty) ==
  IF keys = <<>>
  THEN [unions |-> unions,
        penalties |-> [legitimacy |-> legitimacyPenalty, auditRisk |-> auditPenalty]]
  ELSE IF unions[Head(keys)].isCracked \/ ~unions[Head(keys)].isLicensed
  THEN CrackLoopKeepingLicence(Tail(keys), a, unions, legitimacyPenalty, auditPenalty)
  ELSE IF RngInt(RngNext(a), 1, 100) <= getCrackRisk(unions[Head(keys)])
  THEN CrackLoopKeepingLicence(Tail(keys), RngNext(a).cursor,
         [unions EXCEPT ![Head(keys)].isCracked = TRUE],
         legitimacyPenalty - 2, auditPenalty + 2)
  ELSE CrackLoopKeepingLicence(Tail(keys), RngNext(a).cursor, unions,
                               legitimacyPenalty, auditPenalty)

\* One pass of the loop of processCrackChecks over the remaining keys: a is
\* the state of the local generator, which is dropped when the loop ends.
RECURSIVE CrackLoop(_, _, _, _, _)
CrackLoop(keys, a, unions, legitimacyPenalty, auditPenalty) ==
  IF keys = <<>>
  THEN [unions |-> unions,
        penalties |-> [legitimacy |-> legitimacyPenalty, auditRisk |-> auditPenalty]]
  ELSE LET unionId == Head(keys)
           union   == unions[unionId]
       IN  IF union.isCracked \/ ~union.isLicensed
           THEN CrackLoop(Tail(keys), a, unions, legitimacyPenalty, auditPenalty)
           ELSE LET r    == RngNext(a)
                    roll == RngInt(r, 1, 100)
                IN  IF roll <= getCrackRisk(union)
                    THEN CrackLoop(Tail(keys), r.cursor,
                           [unions EXCEPT ![unionId] =
                              [union EXCEPT !.isCracked = TRUE, !.isLicensed = FALSE]],
                           legitimacyPenalty - 2, auditPenalty + 2)
                    ELSE CrackLoop(Tail(keys), r.cursor, unions,
                                   legitimacyPenalty, auditPenalty)

processCrackChecks(s) ==
  CrackLoop(KeyOrder(DOMAIN s.unions), s.rngCursor, s.unions, 0, 0)

\* { ...upkeep, legitimacy: ..., auditRisk: ... }
combinedEffects(upkeep, penalties) ==
  [upkeep EXCEPT
     !.legitimacy = upkeep.legitimacy + penalties.legitimacy,
     !.auditRisk  = upkeep.auditRisk + penalties.auditRisk]

\* the state applyCycleEnd returns, given what processCrackChecks returned
CycleEndWith(s, upkeep, checked) ==
  [s EXCEPT !.unions = checked.unions,
            !.resources = applyResourceEffects(s.resources,
                            combinedEffects(upkeep, checked.penalties)),
            !.cycle = s.cycle + 1,
            !.unionsGeneratedInCycle = FALSE]

applyCycleEnd(s) == CycleEndWith(s, calculateUpkeep(s), processCrackChecks(s))

(***************************************************************************)
(* generator.ts.  Names are kept as the indices picked from the tables.    *)
(***************************************************************************)
NumPrefixes  == 12
NumSectors   == 12
NumSuffixes  == 10
NumModifiers == 12
\* modifiers[9..11] are the empty string
FirstEmptyModifier == 9

\* generateUnionName(rng), rng being the draws the generator will yield
generateUnionName(rng) ==
  [cursor |-> rng[4].cursor,
   name |-> <<RngPick(rng[1], NumPrefixes), RngPick(rng[2], NumSectors),
              RngPick(rng[3], NumSuffixes),
              Min(RngPick(rng[4], NumModifiers), FirstEmptyModifier)>>,
   sector |-> RngPick(rng[2], NumSectors)]

Archetypes == <<"shell", "captured", "authentic", "volatile">>
ArchetypeWeights == <<40, 30, 20, 10>>

\* the switch of generateUnionStats on the archetype picked
StatsOf(archetype, rng) ==
  CASE archetype = "shell" ->
         [cursor |-> rng[4].cursor,
          plausibility |-> RngInt(rng[2], 70, 95), loyalty |-> RngInt(rng[3], 80, 100),
          integrity |-> RngInt(rng[4], 5, 20), maintenanceCost |-> 0,
          tags |-> <<archetype, "compliant">>]
    [] archetype = "captured" ->
         [cursor |-> rng[4].cursor,
          plausibility |-> RngInt(rng[2], 50, 75), loyalty |-> RngInt(rng[3], 60, 85),
          integrity |-> RngInt(rng[4], 30, 50), maintenanceCost |-> 1,
          tags |-> <<archetype>>]
    [] archetype = "authentic" ->
         [cursor |-> rng[5].cursor,
          plausibility |-> RngInt(rng[2], 30, 60), loyalty |-> RngInt(rng[3], 20, 50),
          integrity |-> RngInt(rng[4], 70, 95), maintenanceCost |-> RngInt(rng[5], 3, 5),
          tags |-> <<archetype, "restless">>]
    [] archetype = "volatile" ->
         [cursor |-> rng[5].cursor,
          plausibility |-> RngInt(rng[2], 20, 80), loyalty |-> RngInt(rng[3], 10, 40),
          integrity |-> RngInt(rng[4], 40, 70), maintenanceCost |-> RngInt(rng[5], 2, 4),
          tags |-> <<archetype, "unpredictable">>]

\* generateUnionStats(rng): the first draw picks the archetype
generateUnionStats(rng) ==
  StatsOf(Archetypes[RngWeighted(rng[1], ArchetypeWeights)], rng)

\* generateId: `union_${Date.now()}_${++idCounter}`, given the clock and the
\* counter after its increment
generateId(clock, counter) == <<clock, counter>>

\* the UnionEntity that generateUnion returns, and the generator's state
UnionOf(id, n, st) ==
  [cursor |-> st.cursor,
   union |-> [id |-> id, name |-> n.name,
              sector |-> n.sector, plausibility |-> st.plausibility,
              loyalty |-> st.loyalty, integrity |-> st.integrity,
              maintenanceCost |-> st.maintenanceCost, tags |-> st.tags,
              isIncubated |-> FALSE, isLicensed |-> FALSE, isCracked |-> FALSE,
              incubationMode |-> Null]]

\* generateUnion(rng): the name from the first draws, the stats from the next
generateUnion(rng, clock, counter) ==
  UnionOf(generateId(clock, counter),
          generateUnionName(SubSeq(rng, 1, NameDraws)),
          generateUnionStats(SubSeq(rng, NameDraws + 1, NameDraws + StatsDraws)))

NumFederationPrefixes == 7
NumFederationSuffixes == 5
NoSector == -1

\* generateFederationName(rng, unions), unions being the list of members
generateFederationName(rng, unions) ==
  IF Len(unions) > 0 /\ RngOverHalf(rng[3])
  THEN [cursor |-> rng[4].cursor,
        name |-> <<RngPick(rng[1], NumFederationPrefixes),
                   unions[RngPick(rng[4], Len(unions)) + 1].sector,
                   RngPick(rng[2], NumFederationSuffixes)>>]
  ELSE [cursor |-> IF Len(unions) > 0 THEN rng[3].cursor ELSE rng[2].cursor,
        name |-> <<RngPick(rng[1], NumFederationPrefixes), NoSector,
                   RngPick(rng[2], NumFederationSuffixes)>>]

(***************************************************************************)
(* reducer.ts: one operator per case of gameReducer, from the state s and  *)
(* the action's fields to the state returned.                              *)
(***************************************************************************)
\* the costs with the patronage that the Dashboard asks for a federation
COSTSOfDashboard ==
  [license          |-> [paperwork |-> 1, patronage |-> 1],
   incubate         |-> [patronage |-> 2],
   generateUnions   |-> [paperwork |-> 1],
   createFederation |-> [paperwork |-> 2, patronage |-> 1]]

COSTS ==
  [license          |-> [paperwork |-> 1, patronage |-> 1],
   incubate         |-> [patronage |-> 2],
   generateUnions   |-> [paperwork |-> 1],
   createFederation |-> [paperwork |-> 2, patronage |-> 3]]

\* actualSeed is action.seed, or the Math.random() seed when it is undefined
ReduceRunStart(actualSeed, showTips) ==
  [createInitialState(actualSeed, showTips) EXCEPT !.phase = "playing"]

\* createInitialState(): a Math.random() seed, showTips defaulted to false
ReduceRunReset(randomSeed) == createInitialState(randomSeed, FALSE)

\* TURN_ADVANCE once applyCycleEnd has returned newState
AdvancedTo(newState) ==
  IF checkLoseCondition(newState) # Null
  THEN [newState EXCEPT !.phase = "ended", !.ending = "collapse"]
  ELSE [newState EXCEPT !.phase = "playing"]

\* a TURN_ADVANCE that enters the cycle it closes in the event history
ReduceTurnAdvanceRecorded(s) ==
  IF s.cycle >= s.maxCycles
  THEN [s EXCEPT !.phase = "election"]
  ELSE AdvancedTo(applyCycleEnd([s EXCEPT !.eventHistory = Append(@, "advance")]))

\* a TURN_ADVANCE that closes a cycle whatever the cycle counter says
ReduceTurnAdvanceUnbounded(s) == AdvancedTo(applyCycleEnd(s))

\* a TURN_ADVANCE that applies the cycle end of the last cycle too, before
\* the election
ReduceTurnAdvanceClosing(s) ==
  IF s.cycle >= s.maxCycles
  THEN [applyCycleEnd(s) EXCEPT !.phase = "election", !.cycle = s.cycle]
  ELSE AdvancedTo(applyCycleEnd(s))

ReduceTurnAdvance(s) ==
  IF s.cycle >= s.maxCycles
  THEN [s EXCEPT !.phase = "election"]
  ELSE AdvancedTo(applyCycleEnd(s))

\* the loop of UNION_GENERATE, i unions still to make: what generateUnion
\* returns in each pass, with the state of the generator after it
RECURSIVE GenerateLoop(_, _, _, _)
RECURSIVE GenerateLoopAfter(_, _, _, _)
GenerateLoopAfter(g, i, clock, counter) ==
  <<g>> \o GenerateLoop(i, g.cursor, clock, counter)

GenerateLoop(i, a, clock, counter) ==
  IF i <= 0 THEN <<>>
  ELSE GenerateLoopAfter(
         generateUnion(RngStream(a, NameDraws + StatsDraws), clock, counter + 1),
         i - 1, clock, counter + 1)

\* the state UNION_GENERATE returns once the loop has made its unions
WithGenerated(s, made) ==
  [s EXCEPT
     !.unions =
       [k \in DOMAIN s.unions \cup {made[i].union.id : i \in DOMAIN made} |->
          IF \E i \in DOMAIN made : made[i].union.id = k
          THEN made[CHOOSE i \in DOMAIN made : made[i].union.id = k].union
          ELSE s.unions[k]],
     !.rngCursor = IF made = <<>> THEN s.rngCursor ELSE made[Len(made)].cursor,
     !.unionsGeneratedInCycle = TRUE,
     !.resources = applyResourceEffects(s.resources,
                     [paperwork |-> -COSTS.generateUnions.paperwork])]

\* UNION_GENERATE without the once-per-cycle check
ReduceUnionGenerateUnthrottled(s, count, clock, counter) ==
  IF s.resources.paperwork < COSTS.generateUnions.paperwork
  THEN s
  ELSE WithGenerated(s, GenerateLoop(count, s.rngCursor, clock, counter))

ReduceUnionGenerate(s, count, clock, counter) ==
  IF s.resources.paperwork < COSTS.generateUnions.paperwork
     \/ s.unionsGeneratedInCycle
  THEN s
  ELSE WithGenerated(s, GenerateLoop(count, s.rngCursor, clock, counter))

\* a UNION_LICENSE whose failed roll costs nothing
ReduceUnionLicenseSilentFailure(s, unionId) ==
  IF unionId \notin DOMAIN s.unions THEN s
  ELSE LET union == s.unions[unionId]
       IN  IF union.isLicensed \/ union.isCracked THEN s
           ELSE IF s.resources.paperwork < COSTS.license.paperwork THEN s
           ELSE LET r == RngNext(s.rngCursor)
                    roll == RngInt(r, 1, 100)
                IN  IF roll <= getLicenseChance(union)
                    THEN [s EXCEPT
                            !.unions[unionId].isLicensed = TRUE,
                            !.resources = applyResourceEffects(s.resources,
                                            [paperwork |-> -COSTS.license.paperwork]),
                            !.rngCursor = r.cursor]
                    ELSE s

ReduceUnionLicense(s, unionId) ==
  IF unionId \notin DOMAIN s.unions THEN s
  ELSE LET union == s.unions[unionId]
       IN  IF union.isLicensed \/ union.isCracked THEN s
           ELSE IF s.resources.paperwork < COSTS.license.paperwork THEN s
           ELSE LET r == RngNext(s.rngCursor)
                    roll == RngInt(r, 1, 100)
                IN  IF roll <= getLicenseChance(union)
                    THEN [s EXCEPT
                            !.unions[unionId].isLicensed = TRUE,
                            !.resources = applyResourceEffects(s.resources,
                                            [paperwork |-> -COSTS.license.paperwork]),
                            !.rngCursor = r.cursor]
                    ELSE [s EXCEPT
                            !.resources = applyResourceEffects(s.resources,
                                            [paperwork |-> -COSTS.license.paperwork,
                                             auditRisk |-> 3]),
                            !.rngCursor = r.cursor]

\* an incubation that does not look at isIncubated
ReduceUnionIncubateAgain(s, unionId, mode) ==
  IF unionId \notin DOMAIN s.unions THEN s
  ELSE IF s.unions[unionId].isCracked THEN s
  ELSE IF s.resources.patronage < COSTS.incubate.patronage THEN s
  ELSE [s EXCEPT
          !.unions[unionId] =
            IF mode = "paperwork"
            THEN [@ EXCEPT !.isIncubated = TRUE, !.incubationMode = "paperwork",
                           !.plausibility = Min(100, @ + 15),
                           !.integrity = Min(100, @ + 10),
                           !.loyalty = Max(0, @ - 10)]
            ELSE [@ EXCEPT !.isIncubated = TRUE, !.incubationMode = "discipline",
                           !.loyalty = Min(100, @ + 15),
                           !.integrity = Min(100, @ + 10),
                           !.plausibility = Max(0, @ - 10)],
          !.resources = applyResourceEffects(s.resources,
                          IF mode = "paperwork"
                          THEN [patronage |-> -COSTS.incubate.patronage, streetHeat |-> 2]
                          ELSE [patronage |-> -COSTS.incubate.patronage])]

\* an incubation that adds to the stats without Math.min and Math.max
ReduceUnionIncubateUnclamped(s, unionId, mode) ==
  IF unionId \notin DOMAIN s.unions THEN s
  ELSE IF s.unions[unionId].isIncubated \/ s.unions[unionId].isCracked THEN s
  ELSE IF s.resources.patronage < COSTS.incubate.patronage THEN s
  ELSE [s EXCEPT
          !.unions[unionId] =
            IF mode = "paperwork"
            THEN [@ EXCEPT !.isIncubated = TRUE, !.incubationMode = "paperwork",
                           !.plausibility = @ + 15, !.integrity = @ + 10,
                           !.loyalty = @ - 10]
            ELSE [@ EXCEPT !.isIncubated = TRUE, !.incubationMode = "discipline",
                           !.loyalty = @ + 15, !.integrity = @ + 10,
                           !.plausibility = @ - 10],
          !.resources = applyResourceEffects(s.resources,
                          IF mode = "paperwork"
                          THEN [patronage |-> -COSTS.incubate.patronage, streetHeat |-> 2]
                          ELSE [patronage |-> -COSTS.incubate.patronage])]

ReduceUnionIncubate(s, unionId, mode) ==
  IF unionId \notin DOMAIN s.unions THEN s
  ELSE LET union == s.unions[unionId]
       IN  IF union.isIncubated \/ union.isCracked THEN s
           ELSE IF s.resources.patronage < COSTS.incubate.patronage THEN s
           ELSE LET updatedUnion ==
                      IF mode = "paperwork"
                      THEN [union EXCEPT
                              !.isIncubated = TRUE,
                              !.incubationMode = "paperwork",
                              !.plausibility = Min(100, union.plausibility + 15),
                              !.integrity = Min(100, union.integrity + 10),
                              !.loyalty = Max(0, union.loyalty - 10)]
                      ELSE [union EXCEPT
                              !.isIncubated = TRUE,
                              !.incubationMode = "discipline",
                              !.loyalty = Min(100, union.loyalty + 15),
                              !.integrity = Min(100, union.integrity + 10),
                              !.plausibility = Max(0, union.plausibility - 10)]
                    resourceEffects ==
                      IF mode = "paperwork"
                      THEN [patronage |-> -COSTS.incubate.patronage, streetHeat |-> 2]
                      ELSE [patronage |-> -COSTS.incubate.patronage]
                IN  [s EXCEPT
                       !.unions[unionId] = updatedUnion,
                       !.resources = applyResourceEffects(s.resources, resourceEffects)]

\* the federations that list unionId as a member
FederationsOf(s, unionId) ==
  {k \in DOMAIN s.federations :
     \E i \in DOMAIN s.federations[k].unionIds : s.federations[k].unionIds[i] = unionId}

\* a membership test that finds no union in a federation
isInFederationNever(s, unionId) == FALSE

\* Object.values(state.federations).some(f => f.unionIds.includes(unionId))
isInFederation(s, unionId) ==
  \E f \in Values(s.federations) : \E i \in DOMAIN f.unionIds : f.unionIds[i] = unionId

\* the collection without the entry of unionId
Without(unions, unionId) == [k \in DOMAIN unions \ {unionId} |-> unions[k]]

ReduceUnionDissolve(s, unionId) ==
  IF unionId \notin DOMAIN s.unions THEN s
  ELSE IF isInFederation(s, unionId) THEN s
  ELSE [s EXCEPT
          !.unions = Without(s.unions, unionId),
          !.resources = applyResourceEffects(s.resources,
                          [paperwork |-> getDissolveReward(s.unions[unionId])])]

\* a reassignment that does not look at the federations
ReduceUnionReassignMember(s, unionId) ==
  IF unionId \notin DOMAIN s.unions THEN s
  ELSE [s EXCEPT
          !.unions = Without(s.unions, unionId),
          !.resources = applyResourceEffects(s.resources,
                          [patronage |-> getReassignReward(s.unions[unionId])])]

ReduceUnionReassign(s, unionId) ==
  IF unionId \notin DOMAIN s.unions THEN s
  ELSE IF isInFederation(s, unionId) THEN s
  ELSE [s EXCEPT
          !.unions = Without(s.unions, unionId),
          !.resources = applyResourceEffects(s.resources,
                          [patronage |-> getReassignReward(s.unions[unionId])])]

\* `fed_${Date.now()}`
federationId(clock) == <<"fed", clock>>

\* { ...collection, [key]: value }: an existing key keeps its place and
\* takes the new value
Put(collection, key, value) == (key :> value) @@ collection

\* a check that sees no union as federated
existingFederatedUnionsNone(s) == {}

\* new Set(Object.values(state.federations).flatMap(f => f.unionIds))
existingFederatedUnions(s) ==
  UNION {{f.unionIds[i] : i \in DOMAIN f.unionIds} : f \in Values(s.federations)}

\* a federation that gets one delegate per member listed
federationPerMember(clock, name, unionIds) ==
  [id |-> federationId(clock), name |-> name, unionIds |-> unionIds,
   delegates |-> Len(unionIds), recognition |-> "recognized", visibility |-> 50]

\* the FederationEntity that FEDERATION_CREATE builds
federation(clock, name, unionIds) ==
  [id |-> federationId(clock), name |-> name, unionIds |-> unionIds,
   delegates |-> 2, recognition |-> "recognized", visibility |-> 50]

ReduceFederationCreate(s, unionIds, clock) ==
  IF Len(unionIds) < 2 THEN s
  ELSE IF \E i \in DOMAIN unionIds : unionIds[i] \notin DOMAIN s.unions THEN s
  ELSE LET unions == [i \in DOMAIN unionIds |-> s.unions[unionIds[i]]]
       IN  IF \E i \in DOMAIN unions : ~unions[i].isLicensed THEN s
           ELSE IF \E i \in DOMAIN unionIds :
                     unionIds[i] \in existingFederatedUnions(s)
                THEN s
           ELSE IF s.resources.paperwork < COSTS.createFederation.paperwork
                   \/ s.resources.patronage < COSTS.createFederation.patronage
                THEN s
           ELSE LET n == generateFederationName(
                           RngStream(s.rngCursor, FederationNameDraws), unions)
                    fed == federation(clock, n.name, unionIds)
                IN  [s EXCEPT
                       !.federations = Put(s.federations, fed.id, fed),
                       !.rngCursor = n.cursor,
                       !.resources = applyResourceEffects(s.resources,
                                       [paperwork |-> -COSTS.createFederation.paperwork,
                                        patronage |-> -COSTS.createFederation.patronage,
                                        auditRisk |-> 5])]

\* an EVENT_DRAW that writes back the cursor of the draw that chose the event
ReduceEventDrawConsuming(s, eventId) ==
  [s EXCEPT !.phase = "event", !.currentEventId = eventId,
            !.rngCursor = RngNext(s.rngCursor).cursor]

ReduceEventDraw(s, eventId) ==
  [s EXCEPT !.phase = "event", !.currentEventId = eventId]

\* an EVENT_CHOOSE that keeps only the footnotes of the choice
DedupeReplacing(a, b) == b

\* [...new Set([...a, ...b])]: a, then the items of b not seen before
RECURSIVE Dedupe(_, _)
Dedupe(a, b) ==
  IF b = <<>> THEN a
  ELSE IF \E i \in DOMAIN a : a[i] = Head(b) THEN Dedupe(a, Tail(b))
  ELSE Dedupe(Append(a, Head(b)), Tail(b))

\* an EVENT_CHOOSE that goes on playing whatever the upkeep has done
UpkeptToPlaying(afterUpkeep) == [afterUpkeep EXCEPT !.phase = "playing"]

\* EVENT_CHOOSE once applyCycleEnd has returned afterUpkeep
UpkeptTo(afterUpkeep) ==
  IF checkLoseCondition(afterUpkeep) # Null
  THEN [afterUpkeep EXCEPT !.phase = "ended", !.ending = "collapse"]
  ELSE [afterUpkeep EXCEPT !.phase = "playing"]

\* EVENT_CHOOSE from the state that carries the choice's effects
ChosenTo(intermediateState) ==
  IF checkLoseCondition(intermediateState) # Null
  THEN [intermediateState EXCEPT !.phase = "ended", !.ending = "collapse"]
  ELSE IF intermediateState.cycle >= intermediateState.maxCycles
  THEN [intermediateState EXCEPT !.phase = "election"]
  ELSE UpkeptTo(applyCycleEnd(intermediateState))

ReduceEventChoose(s, eventId, effects, unlocks) ==
  ChosenTo([s EXCEPT
              !.resources = applyResourceEffects(s.resources, effects),
              !.unlockedFootnotes =
                IF unlocks # Undefined
                THEN Dedupe(Dedupe(<<>>, s.unlockedFootnotes), ValueOf(unlocks))
                ELSE s.unlockedFootnotes,
              !.eventHistory = Append(s.eventHistory, eventId),
              !.currentEventId = Null])

ReduceEventDismiss(s) ==
  [s EXCEPT !.phase = "playing", !.currentEventId = Null]

ReduceElectionResolve(s) ==
  LET totalDelegates == getTotalDelegates(s)
      ending == IF totalDelegates >= 6 THEN "capture" ELSE "collapse"
  IN  [s EXCEPT !.phase = "ended", !.ending = ending]

ReduceSetPhase(s, phase) == [s EXCEPT !.phase = phase]

ReduceTutorialDismiss(s) == [s EXCEPT !.showTips = FALSE]

(***************************************************************************)
(* loadContent.ts: the eligibility of events and of their choices.  The    *)
(* conditions of an event or of a choice are absent (Undefined) or an      *)
(* object that holds some of the twelve thresholds.                        *)
(***************************************************************************)
\* the twelve early returns of checkConditions, c being the conditions object
checkThresholds(c, s) ==
  /\ "patronageMin" \in DOMAIN c => ~(s.resources.patronage < c.patronageMin)
  /\ "patronageMax" \in DOMAIN c => ~(s.resources.patronage > c.patronageMax)
  /\ "legitimacyMin" \in DOMAIN c => ~(s.resources.legitimacy < c.legitimacyMin)
  /\ "legitimacyMax" \in DOMAIN c => ~(s.resources.legitimacy > c.legitimacyMax)
  /\ "auditRiskMin" \in DOMAIN c => ~(s.resources.auditRisk < c.auditRiskMin)
  /\ "auditRiskMax" \in DOMAIN c => ~(s.resources.auditRisk > c.auditRiskMax)
  /\ "streetHeatMin" \in DOMAIN c => ~(s.resources.streetHeat < c.streetHeatMin)
  /\ "streetHeatMax" \in DOMAIN c => ~(s.resources.streetHeat > c.streetHeatMax)
  /\ "cycleMin" \in DOMAIN c => ~(s.cycle < c.cycleMin)
  /\ "cycleMax" \in DOMAIN c => ~(s.cycle > c.cycleMax)
  /\ "federationCountMin" \in DOMAIN c
       => ~(Cardinality(DOMAIN s.federations) < c.federationCountMin)
  /\ "unionCountMin" \in DOMAIN c
       => ~(Cardinality(DOMAIN s.unions) < c.unionCountMin)

checkConditions(conditions, s) ==
  IF conditions = Undefined THEN TRUE ELSE checkThresholds(ValueOf(conditions), s)

checkChoiceConditions(conditions, s) == checkConditions(conditions, s)

\* a filter that looks at the conditions of the event only
getEligibleEventsByConditions(events, s) ==
  SelectSeq(events, LAMBDA event : checkConditions(event.conditions, s))

\* events.filter(...): the events whose conditions hold and that have a
\* choice whose conditions hold, in the order of the list
getEligibleEvents(events, s) ==
  SelectSeq(events,
            LAMBDA event :
              /\ checkConditions(event.conditions, s)
              /\ \E i \in DOMAIN event.choices :
                   checkChoiceConditions(event.choices[i].conditions, s))

\* event.choices.filter(...)
getEligibleChoices(event, s) ==
  SelectSeq(event.choices,
            LAMBDA choice : checkChoiceConditions(choice.conditions, s))

(***************************************************************************)
(* ElectionNight.tsx: the delegate rolls that the screen makes when it is  *)
(* mounted and keeps in its own state.                                     *)
(***************************************************************************)
DELEGATE_THRESHOLD == 6

\* The DelegateRoll of one recognized federation, rolls being the results of
\* its two calls of rng.nextInt(1, 100)
SecuredOf(rolls) ==
  (IF rolls[1] THEN 1 ELSE 0) + (IF rolls[2] THEN 1 ELSE 0)

DelegateRollOf(fed, outcomes) ==
  [federationId |-> fed.id, federationName |-> fed.name, expected |-> 2,
   secured |-> SecuredOf(outcomes), rolls |-> outcomes]

rollFederation(fed, members, rolls) ==
  DelegateRollOf(fed,
    <<RollSucceeds(rolls[1], SumLoyalty(members), Len(members)),
      RollSucceeds(rolls[2], SumLoyalty(members), Len(members))>>)

\* Object.values(state.federations): insertion order, which is the order of
\* the clock readings in the ids
RECURSIVE FederationOrder(_)
FederationOrder(ids) ==
  IF ids = {} THEN <<>>
  ELSE LET first == CHOOSE i \in ids : \A j \in ids : i[2] <= j[2]
       IN  <<first>> \o FederationOrder(ids \ {first})

\* the loop of the effect over the federations left, the generator being in
\* state a: a federation that is not recognized is passed over without a roll
RECURSIVE RollLoop(_, _, _)
RECURSIVE RollLoopAfter(_, _, _, _)
RollLoopAfter(fed, draws, keys, s) ==
  <<rollFederation(fed, memberUnions(fed, s.unions),
                   <<RngInt(draws[1], 1, 100), RngInt(draws[2], 1, 100)>>)>>
    \o RollLoop(keys, draws[2].cursor, s)

RollLoop(keys, a, s) ==
  IF keys = <<>> THEN <<>>
  ELSE IF s.federations[Head(keys)].recognition # "recognized"
  THEN RollLoop(Tail(keys), a, s)
  ELSE RollLoopAfter(s.federations[Head(keys)], RngStream(a, 2), Tail(keys), s)

\* createRNG(state.rngCursor + 999) and the rolls made from it
delegateRolls(s) ==
  RollLoop(FederationOrder(DOMAIN s.federations),
           ToInt32(Add32(ToU32(s.rngCursor), ToU32(999))), s)

\* delegateRolls.reduce((sum, roll) => sum + roll.secured, 0)
RECURSIVE securedDelegates(_)
securedDelegates(rolls) ==
  IF rolls = <<>> THEN 0 ELSE Head(rolls).secured + securedDelegates(Tail(rolls))

(***************************************************************************)
(* The state machine: the store of GameProvider (useReducer) and one       *)
(* action per case of the switch of gameReducer.                           *)
(***************************************************************************)
VARIABLES
  state,      \* the RunState held by useReducer
  now,        \* Date.now() at its last reading
  idCounter,  \* generator.ts: let idCounter
  driver,     \* who dispatches in this session: the screens, or any holder of dispatch
  last,       \* the last dispatch: its action, the state it was applied to, its number
  generators, \* the generator objects made by createRNG and held by a caller
  electionNight, \* the state of the ElectionNight screen while it is mounted
  content     \* the ContentBundle held by GameProvider, null until it is loaded

vars == <<state, now, idCounter, driver, last, generators, electionNight, content>>

\* Bounds of the model
MaxId == 2        \* unions generated in a session
MaxNow == 1       \* milliseconds that pass in a session
MaxHistory == 2   \* event choices in a run
MaxSteps == 6     \* dispatches the screens make in a session
MaxRawSteps == 3  \* dispatches made past the screens in a session

\* Inputs
\* the seeds Math.floor(Math.random() * 2147483647) may yield
RandomSeeds == {7}
StartChoices ==
  { [seed |-> Some(42), showTips |-> TRUE],
    [seed |-> Undefined, showTips |-> FALSE] }
Phases == {"menu", "playing", "event", "election", "ended"}
Modes == {"paperwork", "discipline"}
EventIds == {"e1"}
UnknownId == <<0, 0>>
NoEffects == [k \in {} |-> 0]
EventChoices ==
  { [id |-> "c1", effects |-> NoEffects, unlocks |-> Undefined],
    [id |-> "c2", effects |-> [legitimacy |-> -5], unlocks |-> Some(<<"f1">>)],
    [id |-> "c3", effects |-> [paperwork |-> -1000, patronage |-> -1000,
                               legitimacy |-> -69, streetHeat |-> -1000],
                  unlocks |-> Some(<<"f2">>)],
    [id |-> "c4", effects |-> [paperwork |-> 1000, patronage |-> 1000,
                               legitimacy |-> 1000, auditRisk |-> 89],
                  unlocks |-> Undefined] }

\* useState([]) and useState(false)
NotRolled == [delegateRolls |-> <<>>, hasRolled |-> FALSE]

\* useState<ContentBundle | null>(null): no bundle, a record without events;
\* the reducer reads no content
NoContent == [loaded |-> FALSE]

\* the reducer keeps no generator: each case makes its own and drops it
NoGenerators == <<>>

Init ==
  /\ \E randomSeed \in RandomSeeds : state = createInitialState(randomSeed, FALSE)
  /\ now = 0
  /\ idCounter = 0
  /\ driver \in {"screens", "dispatch"}
  /\ last = [action |-> [type |-> "@@INIT"], pre |-> state, steps |-> 0]
  /\ generators = NoGenerators
  /\ electionNight = NotRolled
  /\ content = NoContent

\* The screen the router shows in each phase, and the actions that screen
\* dispatches through the callbacks of GameProvider.  EVENT_DISMISS, SET_PHASE
\* and UNION_LICENSE_RESULT have no callback: they reach the reducer only
\* through the dispatch that the context hands out.
ScreenOf ==
  [menu |-> {"RUN_START"},
   playing |-> {"TURN_ADVANCE", "UNION_GENERATE", "UNION_LICENSE", "UNION_INCUBATE",
                "UNION_DISSOLVE", "UNION_REASSIGN", "FEDERATION_CREATE",
                "EVENT_DRAW", "TUTORIAL_DISMISS"},
   event |-> {"EVENT_CHOOSE"},
   election |-> {"ELECTION_RESOLVE"},
   ended |-> {"RUN_RESET"}]

Allowed(type) ==
  IF driver = "screens"
  THEN type \in ScreenOf[state.phase] /\ last.steps < MaxSteps
  ELSE last.steps < MaxRawSteps

\* dispatch(action): the store takes what gameReducer(state, action) returns,
\* which is what the case of action.type returns
Dispatch(action, returned) ==
  /\ Allowed(action.type)
  /\ state' = returned
  /\ last' = [action |-> action, pre |-> state, steps |-> last.steps + 1]
  /\ UNCHANGED <<driver, generators, electionNight, content>>

\* the ids a caller passes: those of the unions on record, and one of none
UnionIdChoices == DOMAIN state.unions \cup {UnknownId}
Oldest == {k \in DOMAIN state.unions : \A j \in DOMAIN state.unions : k[2] <= j[2]}

\* the id lists a caller passes: one id, two ids in the record's order or one
\* id twice, an id of no union, and three ids of which the last repeats the
\* first or follows the second
UnionIdLists ==
  {<<a>> : a \in Oldest}
    \cup {<<l[1], l[2]>> : l \in {m \in [1..2 -> DOMAIN state.unions] : m[1][2] <= m[2][2]}}
    \cup {<<a, UnknownId>> : a \in Oldest}
    \cup UNION {{<<l[1], l[2], c>> :
                  c \in {l[1]} \cup {k \in DOMAIN state.unions : l[2][2] < k[2]}} :
                l \in {m \in [1..2 -> DOMAIN state.unions] : m[1][2] < m[2][2]}}

RUN_START ==
  \E c \in StartChoices, randomSeed \in RandomSeeds :
    /\ Dispatch([type |-> "RUN_START", seed |-> c.seed, showTips |-> c.showTips],
                ReduceRunStart(IF c.seed # Undefined THEN ValueOf(c.seed)
                               ELSE randomSeed, c.showTips))
    /\ UNCHANGED <<now, idCounter>>

RUN_RESET ==
  \E randomSeed \in RandomSeeds :
    /\ Dispatch([type |-> "RUN_RESET"], ReduceRunReset(randomSeed))
    /\ UNCHANGED <<now, idCounter>>

TURN_ADVANCE ==
  /\ Dispatch([type |-> "TURN_ADVANCE"], ReduceTurnAdvance(state))
  /\ UNCHANGED <<now, idCounter>>

\* generateId reads the clock and steps idCounter once per union made
UNION_GENERATE ==
  \E count \in 1..MaxId, clock \in now..MaxNow :
    /\ Dispatch([type |-> "UNION_GENERATE", count |-> count],
                ReduceUnionGenerate(state, count, clock, idCounter))
    /\ IF state' = state
       THEN clock = now /\ UNCHANGED idCounter
       ELSE idCounter + count <= MaxId /\ idCounter' = idCounter + count
    /\ now' = clock

UNION_LICENSE ==
  \E unionId \in UnionIdChoices :
    /\ Dispatch([type |-> "UNION_LICENSE", unionId |-> unionId],
                ReduceUnionLicense(state, unionId))
    /\ UNCHANGED <<now, idCounter>>

\* an action type with no case in the switch: the default returns the state
UNION_LICENSE_RESULT ==
  \E unionId \in UnionIdChoices, success \in BOOLEAN :
    /\ Dispatch([type |-> "UNION_LICENSE_RESULT", unionId |-> unionId,
                 success |-> success], state)
    /\ UNCHANGED <<now, idCounter>>

UNION_INCUBATE ==
  \E unionId \in UnionIdChoices, mode \in Modes :
    /\ Dispatch([type |-> "UNION_INCUBATE", unionId |-> unionId, mode |-> mode],
                ReduceUnionIncubate(state, unionId, mode))
    /\ UNCHANGED <<now, idCounter>>

UNION_DISSOLVE ==
  \E unionId \in UnionIdChoices :
    /\ Dispatch([type |-> "UNION_DISSOLVE", unionId |-> unionId],
                ReduceUnionDissolve(state, unionId))
    /\ UNCHANGED <<now, idCounter>>

UNION_REASSIGN ==
  \E unionId \in UnionIdChoices :
    /\ Dispatch([type |-> "UNION_REASSIGN", unionId |-> unionId],
                ReduceUnionReassign(state, unionId))
    /\ UNCHANGED <<now, idCounter>>

\* the federation id is made from the clock
FEDERATION_CREATE ==
  \E unionIds \in UnionIdLists, clock \in now..MaxNow :
    /\ Dispatch([type |-> "FEDERATION_CREATE", unionIds |-> unionIds],
                ReduceFederationCreate(state, unionIds, clock))
    /\ state' = state => clock = now
    /\ now' = clock
    /\ UNCHANGED idCounter

EVENT_DRAW ==
  \E eventId \in EventIds :
    /\ Dispatch([type |-> "EVENT_DRAW", eventId |-> eventId],
                ReduceEventDraw(state, eventId))
    /\ UNCHANGED <<now, idCounter>>

EVENT_CHOOSE ==
  \E eventId \in EventIds, c \in EventChoices :
    /\ Len(state.eventHistory) < MaxHistory
    /\ Dispatch([type |-> "EVENT_CHOOSE", eventId |-> eventId, choiceId |-> c.id,
                 effects |-> c.effects, unlocks |-> c.unlocks],
                ReduceEventChoose(state, eventId, c.effects, c.unlocks))
    /\ UNCHANGED <<now, idCounter>>

EVENT_DISMISS ==
  /\ Dispatch([type |-> "EVENT_DISMISS"], ReduceEventDismiss(state))
  /\ UNCHANGED <<now, idCounter>>

ELECTION_RESOLVE ==
  /\ Dispatch([type |-> "ELECTION_RESOLVE"], ReduceElectionResolve(state))
  /\ UNCHANGED <<now, idCounter>>

TUTORIAL_DISMISS ==
  /\ Dispatch([type |-> "TUTORIAL_DISMISS"], ReduceTutorialDismiss(state))
  /\ UNCHANGED <<now, idCounter>>

SET_PHASE ==
  \E phase \in Phases :
    /\ Dispatch([type |-> "SET_PHASE", phase |-> phase], ReduceSetPhase(state, phase))
    /\ UNCHANGED <<now, idCounter>>

Next ==
  \/ RUN_START
  \/ RUN_RESET
  \/ TURN_ADVANCE
  \/ UNION_GENERATE
  \/ UNION_LICENSE
  \/ UNION_LICENSE_RESULT
  \/ UNION_INCUBATE
  \/ UNION_DISSOLVE
  \/ UNION_REASSIGN
  \/ FEDERATION_CREATE
  \/ EVENT_DRAW
  \/ EVENT_CHOOSE
  \/ EVENT_DISMISS
  \/ ELECTION_RESOLVE
  \/ TUTORIAL_DISMISS
  \/ SET_PHASE

Spec == Init /\ [][Next]_vars

(***************************************************************************)
(* rng.ts on its own: a caller makes two generators from one seed and      *)
(* applies the same operations to both; before each operation it also      *)
(* makes a third generator from the cursor of the first.                   *)
(***************************************************************************)
MaxOps == 3       \* operations applied to each generator

Seeds == {0, 7, 42, 2147483646, -5}
Items == <<"a", "b", "c">>
Operations ==
  { [name |-> "next"],
    [name |-> "nextInt", min |-> 1, max |-> 100],
    [name |-> "nextInt", min |-> 0, max |-> 1],
    [name |-> "pick", items |-> Items],
    [name |-> "pickN", items |-> Items, n |-> 2],
    [name |-> "weightedPick", items |-> Items, weights |-> <<40, 30, 30>>],
    [name |-> "shuffle", items |-> Items],
    [name |-> "shuffle", items |-> <<"a">>] }

InitRng ==
  /\ \E seed \in Seeds :
       /\ state = createInitialState(seed, FALSE)
       /\ generators =
            [cells |-> [g \in {"g1", "g2", "g3"} |-> createRNG(JsNumber(seed))],
             outs |-> [g \in {"g1", "g2", "g3"} |-> Null],
             op |-> [name |-> "createRNG"], ops |-> 0]
  /\ now = 0
  /\ idCounter = 0
  /\ driver = "rng"
  /\ last = [action |-> [type |-> "@@INIT"], pre |-> state, steps |-> 0]
  /\ electionNight = NotRolled
  /\ content = NoContent

\* generator g does the operation: its functions read and write its cell
Did(gens, g, r) ==
  [gens EXCEPT !.cells[Cell(g)] = r.a, !.outs[g] = r.out]

Does(gens, g, op) == Did(gens, g, ApplyOp(op, gens.cells[Cell(g)]))

\* g = createRNG(cursor)
Made(gens, g, cursor) == [gens EXCEPT !.cells[Cell(g)] = createRNG(cursor)]

RngOperation ==
  \E op \in Operations :
    /\ generators.ops < MaxOps
    /\ generators' =
         [Does(Does(Does(Made(generators, "g3", getCursor(generators.cells[Cell("g1")])),
                         "g3", op), "g1", op), "g2", op)
            EXCEPT !.op = op, !.ops = generators.ops + 1]
    /\ UNCHANGED <<state, now, idCounter, driver, last, electionNight, content>>

NextRng == RngOperation

SpecRng == InitRng /\ [][NextRng]_vars

(***************************************************************************)
(* The roll of one federation on its own: a federation of two members, and *)
(* a generator whose next two calls of nextInt(1, 100) return given rolls. *)
(***************************************************************************)
Rolls == 1..100
Recognitions == {"recognized", "unrecognized"}
MemberLoyalties == {<<0, 0>>, <<100, 100>>, <<29, 29>>, <<40, 60>>}
MemberIds == <<<<0, 1>>, <<0, 2>>>>

\* a union on record with the given loyalty
MemberOf(id, loyalty) ==
  [id |-> id, name |-> <<0, 0, 0, 0>>, sector |-> 0, plausibility |-> 50,
   loyalty |-> loyalty, integrity |-> 50, maintenanceCost |-> 1,
   tags |-> <<"captured">>, isIncubated |-> FALSE, isLicensed |-> TRUE,
   isCracked |-> FALSE, incubationMode |-> Null]

\* a run in the election phase with one federation of two members
RunWith(loyalties, recognition) ==
  [createInitialState(42, FALSE) EXCEPT
     !.phase = "election",
     !.unions = [id \in {MemberIds[1], MemberIds[2]} |->
                   MemberOf(id, IF id = MemberIds[1] THEN loyalties[1] ELSE loyalties[2])],
     !.federations =
        (federationId(0) :>
           [federation(0, <<0, NoSector, 0>>, MemberIds) EXCEPT !.recognition = recognition])]

InitRoll ==
  /\ \E loyalties \in MemberLoyalties, recognition \in Recognitions :
       state = RunWith(loyalties, recognition)
  /\ \E r1 \in Rolls, r2 \in Rolls : generators = [nextInts |-> <<r1, r2>>]
  /\ now = 0
  /\ idCounter = 0
  /\ driver = "roll"
  /\ last = [action |-> [type |-> "@@INIT"], pre |-> state, steps |-> 0]
  /\ electionNight = NotRolled
  /\ content = NoContent

\* one pass of the loop of the effect, for the federation of the run
RollOne(fed) ==
  IF fed.recognition # "recognized" THEN <<>>
  ELSE <<rollFederation(fed, memberUnions(fed, state.unions), generators.nextInts)>>

RollDelegates ==
  /\ ~electionNight.hasRolled
  /\ electionNight' =
       [delegateRolls |-> RollOne(state.federations[federationId(0)]),
        hasRolled |-> TRUE]
  /\ UNCHANGED <<state, now, idCounter, driver, last, generators, content>>

NextRoll == RollDelegates

SpecRoll == InitRoll /\ [][NextRoll]_vars

(***************************************************************************)
(* A campaign: one run played through the screens up to election night by  *)
(* a player who generates three unions at a time, licenses the cards in    *)
(* order, federates the first two free licensed unions and advances the    *)
(* turn, and who presses no button that would change nothing.              *)
(***************************************************************************)
MaxCampaignSteps == 18   \* dispatches of the campaign
MaxCampaignUnions == 6   \* unions generated in the campaign

CampaignSeeds == {7}

InitCampaign ==
  /\ \E randomSeed \in RandomSeeds : state = createInitialState(randomSeed, FALSE)
  /\ now = 0
  /\ idCounter = 0
  /\ driver = "campaign"
  /\ last = [action |-> [type |-> "@@INIT"], pre |-> state, steps |-> 0]
  /\ generators = NoGenerators
  /\ electionNight = NotRolled
  /\ content = NoContent

\* a dispatch from the screen of the phase that changes the state
Played(action, returned) ==
  /\ action.type \in ScreenOf[state.phase]
  /\ last.steps < MaxCampaignSteps
  /\ returned # state
  /\ state' = returned
  /\ last' = [action |-> action, pre |-> state, steps |-> last.steps + 1]
  /\ UNCHANGED <<driver, generators, content>>

\* the first card that can be licensed, and the first two that can be federated
Unlicensed ==
  {k \in DOMAIN state.unions :
     ~state.unions[k].isLicensed /\ ~state.unions[k].isCracked}
Free ==
  {k \in DOMAIN state.unions :
     state.unions[k].isLicensed /\ FederationsOf(state, k) = {}}
FirstOf(ids) == {k \in ids : \A j \in ids : k[2] <= j[2]}

CampaignStart ==
  \E seed \in CampaignSeeds :
    /\ Played([type |-> "RUN_START", seed |-> Some(seed), showTips |-> FALSE],
              ReduceRunStart(seed, FALSE))
    /\ UNCHANGED <<now, idCounter, electionNight>>

\* handleGenerateUnions: generateUnions(3)
CampaignGenerate ==
  /\ idCounter + 3 <= MaxCampaignUnions
  /\ Played([type |-> "UNION_GENERATE", count |-> 3],
            ReduceUnionGenerate(state, 3, now, idCounter))
  /\ idCounter' = idCounter + 3
  /\ UNCHANGED <<now, electionNight>>

CampaignLicense ==
  \E unionId \in FirstOf(Unlicensed) :
    /\ Played([type |-> "UNION_LICENSE", unionId |-> unionId],
              ReduceUnionLicense(state, unionId))
    /\ UNCHANGED <<now, idCounter, electionNight>>

\* handleCreateFederation with two cards selected, in the millisecond of the
\* last reading of the clock or in the next
CampaignFederate ==
  \E a \in FirstOf(Free), clock \in {now, now + 1} :
    \E b \in FirstOf(Free \ {a}) :
      /\ Played([type |-> "FEDERATION_CREATE", unionIds |-> <<a, b>>],
                ReduceFederationCreate(state, <<a, b>>, clock))
      /\ now' = clock
      /\ UNCHANGED <<idCounter, electionNight>>

CampaignAdvance ==
  /\ Played([type |-> "TURN_ADVANCE"], ReduceTurnAdvance(state))
  /\ UNCHANGED <<now, idCounter, electionNight>>

\* the effect of ElectionNight, run once when the screen is mounted
ElectionNightEffect ==
  /\ state.phase = "election"
  /\ ~electionNight.hasRolled
  /\ electionNight' = [delegateRolls |-> delegateRolls(state), hasRolled |-> TRUE]
  /\ UNCHANGED <<state, now, idCounter, driver, last, generators, content>>

\* handleReveal: resolveElection(); the screen's state is read once more
\* before the router takes the screen down
CampaignResolve ==
  /\ electionNight.hasRolled
  /\ Played([type |-> "ELECTION_RESOLVE"], ReduceElectionResolve(state))
  /\ UNCHANGED <<now, idCounter, electionNight>>

NextCampaign ==
  \/ CampaignStart
  \/ CampaignGenerate
  \/ CampaignLicense
  \/ CampaignFederate
  \/ CampaignAdvance
  \/ ElectionNightEffect
  \/ CampaignResolve

SpecCampaign == InitCampaign /\ [][NextCampaign]_vars

(***************************************************************************)
(* A run played through the controls the screens show, with a bundle of    *)
(* content loaded: the start button, the generate button, the advance      *)
(* button of the Dashboard, the choice buttons of the EventModal and the   *)
(* reveal button of ElectionNight.                                         *)
(***************************************************************************)
\* an event of the bundle: two choices, the second of which costs legitimacy
\* and unlocks a footnote
ShellEvent(id, weight, conditions, c2) ==
  [id |-> id, weight |-> weight, conditions |-> conditions,
   choices |-> <<[id |-> "calm", conditions |-> Undefined, effects |-> NoEffects,
                  unlocks |-> Undefined],
                 [id |-> "bold", conditions |-> c2,
                  effects |-> [legitimacy |-> -5, auditRisk |-> 30],
                  unlocks |-> Some(<<"f1">>)]>>]

\* the bundles that loadContent may return: one with an event that is always
\* eligible and a heavier one for runs with unions, and one whose events ask
\* for an early cycle or for a high audit risk
ShellBundles ==
  { [events |-> <<ShellEvent("open", 1, Undefined, Some([auditRiskMax |-> 50])),
                  ShellEvent("crowded", 3, Some([unionCountMin |-> 3]), Undefined)>>],
    [events |-> <<ShellEvent("early", 1, Some([cycleMax |-> 2]), Undefined),
                  ShellEvent("hot", 1, Some([auditRiskMin |-> 50]), Undefined)>>] }

InitShell ==
  /\ \E randomSeed \in RandomSeeds : state = createInitialState(randomSeed, FALSE)
  /\ content \in ShellBundles
  /\ now = 0
  /\ idCounter = 0
  /\ driver = "shell"
  /\ last = [action |-> [type |-> "@@INIT"], pre |-> state, steps |-> 0]
  /\ generators = NoGenerators
  /\ electionNight = NotRolled

\* rng.weightedPick(eligible, eligible.map(e => e.weight)) after the draw r
weightedPick(eligible, r) ==
  eligible[RngWeighted(r, [i \in DOMAIN eligible |-> eligible[i].weight])]

\* drawRandomEvent: the id of the event it dispatches EVENT_DRAW with, or
\* Null when it returns without a dispatch
drawRandomEvent(c, s) ==
  IF c = NoContent THEN Null
  ELSE IF getEligibleEvents(c.events, s) = <<>> THEN Null
  ELSE weightedPick(getEligibleEvents(c.events, s), RngNext(s.rngCursor)).id

\* handleAdvanceTurn: drawRandomEvent(), and nothing else
handleAdvanceTurn ==
  /\ state.phase = "playing"
  /\ IF drawRandomEvent(content, state) = Null
     THEN /\ last' = [action |-> [type |-> "handleAdvanceTurn"], pre |-> state,
                      steps |-> last.steps]
          /\ UNCHANGED <<state, driver, generators, content>>
     ELSE Played([type |-> "EVENT_DRAW", eventId |-> drawRandomEvent(content, state)],
                 ReduceEventDraw(state, drawRandomEvent(content, state)))
  /\ UNCHANGED <<now, idCounter, electionNight>>

\* EventModal: a button for each eligible choice of the current event;
\* handleChoice calls chooseEventOption, which dispatches the choice's
\* effects and unlocks
handleChoice ==
  /\ state.phase = "event"
  /\ content # NoContent
  /\ \E i \in DOMAIN content.events :
       /\ content.events[i].id = state.currentEventId
       /\ \E j \in DOMAIN getEligibleChoices(content.events[i], state) :
            Played([type |-> "EVENT_CHOOSE", eventId |-> content.events[i].id,
                    choiceId |-> getEligibleChoices(content.events[i], state)[j].id,
                    effects |-> getEligibleChoices(content.events[i], state)[j].effects,
                    unlocks |-> getEligibleChoices(content.events[i], state)[j].unlocks],
                   ReduceEventChoose(state, content.events[i].id,
                                     getEligibleChoices(content.events[i], state)[j].effects,
                                     getEligibleChoices(content.events[i], state)[j].unlocks))
  /\ UNCHANGED <<now, idCounter, electionNight>>

NextShell ==
  \/ CampaignStart
  \/ CampaignGenerate
  \/ handleAdvanceTurn
  \/ handleChoice
  \/ ElectionNightEffect
  \/ CampaignResolve

SpecShell == InitShell /\ [][NextShell]_vars

(***************************************************************************)
(* The eligibility functions on their own: a bundle of events whose        *)
(* conditions hold each threshold alone, two together, none, or only on    *)
(* the choices, and run states whose measures lie below, on and above the  *)
(* thresholds.                                                             *)
(***************************************************************************)
ConditionKeys ==
  <<"patronageMin", "patronageMax", "legitimacyMin", "legitimacyMax",
    "auditRiskMin", "auditRiskMax", "streetHeatMin", "streetHeatMax",
    "cycleMin", "cycleMax", "federationCountMin", "unionCountMin">>

Thresholds ==
  [patronageMin |-> 5, patronageMax |-> 5, legitimacyMin |-> 70,
   legitimacyMax |-> 70, auditRiskMin |-> 10, auditRiskMax |-> 10,
   streetHeatMin |-> 5, streetHeatMax |-> 5, cycleMin |-> 2, cycleMax |-> 2,
   federationCountMin |-> 1, unionCountMin |-> 5]

\* a conditions object that holds the thresholds of keys
ConditionsOn(keys) == Some([k \in keys |-> Thresholds[k]])

ChoiceOn(id, conditions) ==
  [id |-> id, conditions |-> conditions, effects |-> NoEffects,
   unlocks |-> Undefined]

EventOn(id, conditions, c1, c2) ==
  [id |-> id, weight |-> 1, conditions |-> conditions,
   choices |-> <<ChoiceOn("c1", c1), ChoiceOn("c2", c2)>>]

\* one event per threshold, then an event without conditions, one whose
\* choices both ask for an early cycle, one whose choices ask for different
\* things, one with two thresholds, and one with empty conditions objects
EligibilityEvents ==
  [i \in 1..Len(ConditionKeys) |->
     EventOn(ConditionKeys[i], ConditionsOn({ConditionKeys[i]}), Undefined, Undefined)]
  \o <<EventOn("open", Undefined, Undefined, Undefined),
        EventOn("deadend", Undefined,
                ConditionsOn({"cycleMax"}), ConditionsOn({"patronageMin", "cycleMax"})),
        EventOn("half", Undefined,
                ConditionsOn({"legitimacyMax"}), ConditionsOn({"cycleMin"})),
        EventOn("both", ConditionsOn({"patronageMin", "auditRiskMax"}),
                Undefined, ConditionsOn({"streetHeatMin"})),
        EventOn("empty", ConditionsOn({}), ConditionsOn({}), Undefined)>>

\* the offsets of a measure from its threshold
Offsets == {-1, 0, 1}

\* a run with the given resources and cycle, unions unions of which the
\* first 2 * feds are the members of feds federations
EligibilityRun(r, cycle, unions, feds) ==
  [createInitialState(42, FALSE) EXCEPT
     !.phase = "playing",
     !.cycle = cycle,
     !.resources = r,
     !.unions = [id \in {generateId(0, i) : i \in 1..unions} |-> MemberOf(id, 50)],
     !.federations =
        [k \in {federationId(i) : i \in 1..feds} |->
           federation(k[2], <<0, NoSector, 0>>,
                      <<generateId(0, 2 * k[2] - 1), generateId(0, 2 * k[2])>>)]]

InitEligible ==
  /\ \E p \in Offsets, l \in Offsets, a \in Offsets, h \in Offsets,
        c \in Offsets, u \in Offsets, f \in Offsets :
       state = EligibilityRun([paperwork |-> 3, patronage |-> 5 + p,
                               legitimacy |-> 70 + l, auditRisk |-> 10 + a,
                               streetHeat |-> 5 + h],
                              2 + c, 5 + u, 1 + f)
  /\ content = [events |-> EligibilityEvents]
  /\ now = 0
  /\ idCounter = 0
  /\ driver = "eligibility"
  /\ last = [action |-> [type |-> "@@INIT"], pre |-> state, steps |-> 0]
  /\ generators = NoGenerators
  /\ electionNight = NotRolled

\* getEligibleEvents(content.events, state), and getEligibleChoices(event,
\* state) for each event of the bundle
Eligibility ==
  /\ last.steps = 0
  /\ last' = [action |-> [type |-> "getEligibleEvents"], pre |-> state, steps |-> 1,
              eligible |-> getEligibleEvents(content.events, state),
              choices |-> [i \in DOMAIN content.events |->
                             getEligibleChoices(content.events[i], state)]]
  /\ UNCHANGED <<state, now, idCounter, driver, generators, electionNight, content>>

NextEligible == Eligibility

SpecEligible == InitEligible /\ [][NextEligible]_vars

(***************************************************************************)
(* One incubation card: a run that holds one union whose archetype and     *)
(* stats are those of generateUnionStats for draws at the ends and in the  *)
(* middle of the generator's range, and the dispatches that reach that     *)
(* card.                                                                   *)
(***************************************************************************)
MaxCardSteps == 3

\* draws of next(): 0, 0.5, 0.8 and the highest, one in each band of the
\* archetype weights
Draw(u) == [cursor |-> 0, u |-> u]
ArchetypeDraws == {<<0, 0>>, <<32768, 0>>, <<52429, 0>>, <<65535, 65535>>}
StatDraws == {<<0, 0>>, <<32768, 0>>, <<65535, 65535>>}

\* the union that generateUnion returns on the draws archetype, stats
CardOf(archetype, stats) ==
  generateUnion(<<Draw(<<0, 0>>), Draw(<<0, 0>>), Draw(<<0, 0>>), Draw(<<0, 0>>),
                  Draw(archetype), Draw(stats[1]), Draw(stats[2]), Draw(stats[3]),
                  Draw(stats[4])>>, 0, 1).union

CardPatronage == {1, 2, 5}
CardStreetHeat == {5, 99}

InitCard ==
  /\ \E randomSeed \in RandomSeeds, archetype \in ArchetypeDraws,
        stats \in [1..4 -> StatDraws],
        patronage \in CardPatronage, streetHeat \in CardStreetHeat :
       state = [ReduceRunStart(randomSeed, FALSE) EXCEPT
                  !.unions = [k \in {generateId(0, 1)} |-> CardOf(archetype, stats)],
                  !.resources.patronage = patronage,
                  !.resources.streetHeat = streetHeat]
  /\ now = 0
  /\ idCounter = 1
  /\ driver = "card"
  /\ last = [action |-> [type |-> "@@INIT"], pre |-> state, steps |-> 0]
  /\ generators = NoGenerators
  /\ electionNight = NotRolled
  /\ content = NoContent

\* dispatch(action) from the dashboard
CardDispatch(action, returned) ==
  /\ state.phase = "playing"
  /\ last.steps < MaxCardSteps
  /\ state' = returned
  /\ last' = [action |-> action, pre |-> state, steps |-> last.steps + 1]
  /\ UNCHANGED <<now, idCounter, driver, generators, electionNight, content>>

CardIncubate ==
  \E unionId \in UnionIdChoices, mode \in Modes :
    CardDispatch([type |-> "UNION_INCUBATE", unionId |-> unionId, mode |-> mode],
                 ReduceUnionIncubate(state, unionId, mode))

CardLicense ==
  \E unionId \in DOMAIN state.unions :
    CardDispatch([type |-> "UNION_LICENSE", unionId |-> unionId],
                 ReduceUnionLicense(state, unionId))

CardAdvance == CardDispatch([type |-> "TURN_ADVANCE"], ReduceTurnAdvance(state))

CardDissolve ==
  \E unionId \in DOMAIN state.unions :
    CardDispatch([type |-> "UNION_DISSOLVE", unionId |-> unionId],
                 ReduceUnionDissolve(state, unionId))

NextCard == CardIncubate \/ CardLicense \/ CardAdvance \/ CardDissolve

SpecCard == InitCard /\ [][NextCard]_vars

(***************************************************************************)
(* Turn progression: the dispatches that move the cycle counter and the    *)
(* phase, sent in any phase and as often as the bound allows, so that a    *)
(* run goes through its five cycles and is sent more of them afterwards.   *)
(***************************************************************************)
MaxTurnSteps == 9
MaxTurnUnions == 1
TurnChoices == {c \in EventChoices : c.id \in {"c1", "c4"}}

InitTurns ==
  /\ \E randomSeed \in RandomSeeds : state = createInitialState(randomSeed, FALSE)
  /\ now = 0
  /\ idCounter = 0
  /\ driver = "turns"
  /\ last = [action |-> [type |-> "@@INIT"], pre |-> state, steps |-> 0]
  /\ generators = NoGenerators
  /\ electionNight = NotRolled
  /\ content = NoContent

\* dispatch(action): no case of gameReducer reads state.phase
TurnDispatch(action, returned) ==
  /\ last.steps < MaxTurnSteps
  /\ state' = returned
  /\ last' = [action |-> action, pre |-> state, steps |-> last.steps + 1]
  /\ UNCHANGED <<now, driver, generators, electionNight, content>>

TurnStart ==
  \E seed \in RandomSeeds :
    /\ TurnDispatch([type |-> "RUN_START", seed |-> Some(seed), showTips |-> FALSE],
                    ReduceRunStart(seed, FALSE))
    /\ UNCHANGED idCounter

TurnGenerate ==
  /\ idCounter < MaxTurnUnions
  /\ TurnDispatch([type |-> "UNION_GENERATE", count |-> 1],
                  ReduceUnionGenerate(state, 1, now, idCounter))
  /\ idCounter' = IF state' = state THEN idCounter ELSE idCounter + 1

TurnLicense ==
  \E unionId \in DOMAIN state.unions :
    /\ TurnDispatch([type |-> "UNION_LICENSE", unionId |-> unionId],
                    ReduceUnionLicense(state, unionId))
    /\ UNCHANGED idCounter

TurnAdvance ==
  /\ TurnDispatch([type |-> "TURN_ADVANCE"], ReduceTurnAdvance(state))
  /\ UNCHANGED idCounter

TurnChoose ==
  \E eventId \in EventIds, c \in TurnChoices :
    /\ TurnDispatch([type |-> "EVENT_CHOOSE", eventId |-> eventId, choiceId |-> c.id,
                     effects |-> c.effects, unlocks |-> c.unlocks],
                    ReduceEventChoose(state, eventId, c.effects, c.unlocks))
    /\ UNCHANGED idCounter

TurnSetPhase ==
  \E phase \in {"playing", "election"} :
    /\ TurnDispatch([type |-> "SET_PHASE", phase |-> phase], ReduceSetPhase(state, phase))
    /\ UNCHANGED idCounter

NextTurns ==
  \/ TurnStart
  \/ TurnGenerate
  \/ TurnLicense
  \/ TurnAdvance
  \/ TurnChoose
  \/ TurnSetPhase

SpecTurns == InitTurns /\ [][NextTurns]_vars

(***************************************************************************)
(* Properties                                                              *)
(***************************************************************************)
Dispatched(type) == last.action.type = type

\* a lose condition of the run holds on the resources r
LoseHolds(r) == r.legitimacy <= 0 \/ r.auditRisk >= 100 \/ r.streetHeat >= 100

\* the state went through a cycle end in the last dispatch
CycleEnded == state.cycle = last.pre.cycle + 1

\* C1: in every reachable state paperwork is in 0..10, patronage in 0..20,
\* and legitimacy, auditRisk and streetHeat are each in 0..100, whatever the
\* magnitude of the effects applied.
C1_ResourcesInBounds ==
  /\ state.resources.paperwork \in 0..10
  /\ state.resources.patronage \in 0..20
  /\ state.resources.legitimacy \in 0..100
  /\ state.resources.auditRisk \in 0..100
  /\ state.resources.streetHeat \in 0..100

\* an event choice of effect +1000 has left patronage and legitimacy at their
\* maxima
C1_Witness ==
  /\ Dispatched("EVENT_CHOOSE")
  /\ Delta(last.action.effects, "patronage") = 1000
  /\ state.resources.patronage = 20
  /\ state.resources.legitimacy = 100

\* C2: every federation has exactly 2 delegates, whatever the number of its
\* members and whatever their stats or cracked status.
C2_TwoDelegates ==
  \A f \in Values(state.federations) : f.delegates = 2

\* a federation created from a list of three ids is on record
C2_Witness ==
  /\ Dispatched("FEDERATION_CREATE")
  /\ Len(last.action.unionIds) = 3
  /\ \E f \in Values(state.federations) : f.unionIds = last.action.unionIds

\* C3: a union id is in the member list of at most one federation, and a
\* FEDERATION_CREATE whose id list contains a union that is already a member
\* of a federation returns the state unchanged.
C3_MembershipExclusive ==
  /\ \A unionId \in DOMAIN state.unions :
       Cardinality(FederationsOf(state, unionId)) <= 1
  /\ (Dispatched("FEDERATION_CREATE")
      /\ \E i \in DOMAIN last.action.unionIds :
           FederationsOf(last.pre, last.action.unionIds[i]) # {})
     => state = last.pre

\* a FEDERATION_CREATE that could be paid for, listing two licensed unions of
\* which one is a member of a federation, has returned the state unchanged
C3_Witness ==
  /\ Dispatched("FEDERATION_CREATE")
  /\ Len(last.action.unionIds) >= 2
  /\ \A i \in DOMAIN last.action.unionIds :
       /\ last.action.unionIds[i] \in DOMAIN last.pre.unions
       /\ last.pre.unions[last.action.unionIds[i]].isLicensed
  /\ \E i \in DOMAIN last.action.unionIds :
       FederationsOf(last.pre, last.action.unionIds[i]) # {}
  /\ last.pre.resources.paperwork >= 2
  /\ last.pre.resources.patronage >= 3
  /\ state = last.pre

\* the per-cycle flag was set before the last dispatch and is clear after it
FlagCleared == last.pre.unionsGeneratedInCycle /\ ~state.unionsGeneratedInCycle

C5_EndedIsTerminal ==
  (last.pre.phase = "ended" /\ ~Dispatched("RUN_RESET")) => state.phase = "ended"

\* the phase changes that the actions may make
LegalEdge(from, type, to) ==
  \/ from = to
  \/ type = "RUN_START" /\ from = "menu" /\ to = "playing"
  \/ type = "EVENT_DRAW" /\ from = "playing" /\ to = "event"
  \/ type = "EVENT_CHOOSE" /\ from = "event" /\ to \in {"playing", "election", "ended"}
  \/ type = "TURN_ADVANCE" /\ from = "playing" /\ to \in {"playing", "election", "ended"}
  \/ type = "ELECTION_RESOLVE" /\ from = "election" /\ to = "ended"
  \/ type = "RUN_RESET" /\ to = "menu"

\* C6: for every action the phase stays the same or changes along a legal
\* edge: menu to playing (start), playing to event (draw), event to playing,
\* election or ended (choose), playing to playing, election or ended
\* (advance), election to ended (resolve), any phase to menu (reset).
C6_LegalEdges == LegalEdge(last.pre.phase, last.action.type, state.phase)

\* C7: an action dispatched in the wrong phase returns the state unchanged:
\* the union and federation actions when the phase is not playing,
\* EVENT_CHOOSE when it is not event, ELECTION_RESOLVE when it is not election.
C7_WrongPhaseIsNoOp ==
  /\ (last.action.type \in {"UNION_GENERATE", "UNION_LICENSE", "UNION_INCUBATE",
                            "UNION_DISSOLVE", "UNION_REASSIGN", "FEDERATION_CREATE"}
      /\ last.pre.phase # "playing") => state = last.pre
  /\ (Dispatched("EVENT_CHOOSE") /\ last.pre.phase # "event") => state = last.pre
  /\ (Dispatched("ELECTION_RESOLVE") /\ last.pre.phase # "election") => state = last.pre

\* C8: in a state whose phase is playing, event or election no lose condition
\* holds: legitimacy > 0, auditRisk < 100 and streetHeat < 100.  Stated for
\* the sessions in which every action comes from the screen of its phase.
C8_NoLossWhileRunning ==
  (driver = "screens" /\ state.phase \in {"playing", "event", "election"})
    => ~LoseHolds(state.resources)

\* the resources an EVENT_CHOOSE leaves when its effects are applied and clamped
Chosen == applyResourceEffects(last.pre.resources, last.action.effects)

\* C9: when the clamped resources after an EVENT_CHOOSE's effects satisfy a
\* lose condition, the result has phase ended and ending collapse, those
\* resources, the event appended to eventHistory, currentEventId null, and no
\* upkeep, crack check or cycle increment applied.
C9_LosingChoiceEndsRun ==
  (Dispatched("EVENT_CHOOSE") /\ LoseHolds(Chosen))
    => /\ state.phase = "ended"
       /\ state.ending = "collapse"
       /\ state.resources = Chosen
       /\ state.eventHistory = Append(last.pre.eventHistory, last.action.eventId)
       /\ state.currentEventId = Null
       /\ state.cycle = last.pre.cycle
       /\ state.unions = last.pre.unions
       /\ state.unionsGeneratedInCycle = last.pre.unionsGeneratedInCycle

\* legitimacy 1 and a choice of effect -5 have given legitimacy 0 and the end
C9_Witness ==
  /\ Dispatched("EVENT_CHOOSE")
  /\ last.pre.phase = "event"
  /\ last.pre.resources.legitimacy = 1
  /\ Delta(last.action.effects, "legitimacy") = -5
  /\ state.resources.legitimacy = 0
  /\ state.phase = "ended"

\* the last dispatch closed a cycle before the last one
ClosedCycle ==
  /\ last.pre.cycle < last.pre.maxCycles
  /\ \/ Dispatched("TURN_ADVANCE")
     \/ Dispatched("EVENT_CHOOSE") /\ ~LoseHolds(Chosen)

\* C10: when an EVENT_CHOOSE or TURN_ADVANCE closes a cycle before the last,
\* the lose condition is evaluated on the resources after upkeep and crack
\* penalties: phase ended with ending collapse if it holds, phase playing
\* otherwise.
C10_LossCheckedAfterUpkeep ==
  ClosedCycle
    => /\ CycleEnded
       /\ IF LoseHolds(state.resources)
          THEN state.phase = "ended" /\ state.ending = "collapse"
          ELSE state.phase = "playing"

\* an event choice with no effects, made when no lose condition held, has
\* ended the run through the upkeep
C10_Witness ==
  /\ Dispatched("EVENT_CHOOSE")
  /\ last.action.effects = NoEffects
  /\ last.pre.phase = "event"
  /\ ~LoseHolds(last.pre.resources)
  /\ CycleEnded
  /\ state.phase = "ended"
  /\ state.ending = "collapse"

\* C13: the state an action returns is a function of the state and the action
\* alone: whatever the clock reads, wherever the id counter stands and
\* whatever seed the ambient random source yields, the result is the same.
C13_Deterministic ==
  /\ Dispatched("UNION_GENERATE")
     => \A clock \in 0..MaxNow, counter \in 0..MaxId :
          state = ReduceUnionGenerate(last.pre, last.action.count, clock, counter)
  /\ Dispatched("FEDERATION_CREATE")
     => \A clock \in 0..MaxNow :
          state = ReduceFederationCreate(last.pre, last.action.unionIds, clock)
  /\ (Dispatched("RUN_START") /\ last.action.seed = Undefined)
     => \A randomSeed \in RandomSeeds :
          state = ReduceRunStart(randomSeed, last.action.showTips)

\* the unions that the crack checks of a cycle end roll for
Rolled(s) == {k \in DOMAIN s.unions : s.unions[k].isLicensed /\ ~s.unions[k].isCracked}

\* the cursor of a generator made from cursor a after n draws, n > 0
CursorAfter(a, n) == RngStream(a, n)[n].cursor

\* C16: a transition that draws from a generator seeded with rngCursor leaves
\* in rngCursor the generator's cursor after its draws: UNION_LICENSE after
\* its one roll, UNION_GENERATE and FEDERATION_CREATE after theirs, and a
\* cycle end after one roll per licensed non-cracked union.
C16_CursorWrittenBack ==
  /\ (Dispatched("UNION_LICENSE") /\ state # last.pre)
     => state.rngCursor = CursorAfter(last.pre.rngCursor, 1)
  /\ ((Dispatched("UNION_GENERATE") \/ Dispatched("FEDERATION_CREATE"))
      /\ state # last.pre)
     => state.rngCursor # last.pre.rngCursor
  /\ (ClosedCycle /\ Rolled(last.pre) # {})
     => state.rngCursor =
          CursorAfter(last.pre.rngCursor, Cardinality(Rolled(last.pre)))

\* the roll that a UNION_LICENSE applied to the state s makes
LicenseRoll(s) == RngInt(RngNext(s.rngCursor), 1, 100)

\* the last dispatch was a UNION_LICENSE of an unlicensed, non-cracked union
\* on record that could be paid for
LicenseTried ==
  /\ Dispatched("UNION_LICENSE")
  /\ last.action.unionId \in DOMAIN last.pre.unions
  /\ ~last.pre.unions[last.action.unionId].isLicensed
  /\ ~last.pre.unions[last.action.unionId].isCracked
  /\ last.pre.resources.paperwork >= 1

IdsOf(unionIds) == {unionIds[i] : i \in DOMAIN unionIds}

\* C18: a FEDERATION_CREATE changes the state only when its list names at
\* least 2 unions, no union twice, all on record, all licensed, none already
\* federated, and paperwork >= 2 and patronage >= 3.
C18_CreateOnlyWhenValid ==
  (Dispatched("FEDERATION_CREATE") /\ state # last.pre)
    => /\ Len(last.action.unionIds) >= 2
       /\ Cardinality(IdsOf(last.action.unionIds)) = Len(last.action.unionIds)
       /\ \A id \in IdsOf(last.action.unionIds) :
            /\ id \in DOMAIN last.pre.unions
            /\ last.pre.unions[id].isLicensed
            /\ FederationsOf(last.pre, id) = {}
       /\ last.pre.resources.paperwork >= 2
       /\ last.pre.resources.patronage >= 3

\* the last dispatch was a UNION_DISSOLVE or UNION_REASSIGN of a union on record
RemovalTried ==
  /\ Dispatched("UNION_DISSOLVE") \/ Dispatched("UNION_REASSIGN")
  /\ last.action.unionId \in DOMAIN last.pre.unions

\* C19: UNION_DISSOLVE and UNION_REASSIGN of a federation member return the
\* state unchanged; of a union that is no member they remove that union alone
\* and add 1 + floor(plausibility / 30) paperwork (dissolve) or
\* 1 + floor(loyalty / 25) patronage (reassign), clamped, and nothing else.
C19_RemovalBlockedForMembers ==
  RemovalTried
    => IF FederationsOf(last.pre, last.action.unionId) # {}
       THEN state = last.pre
       ELSE /\ DOMAIN state.unions = DOMAIN last.pre.unions \ {last.action.unionId}
            /\ \A k \in DOMAIN state.unions : state.unions[k] = last.pre.unions[k]
            /\ state.resources =
                 IF Dispatched("UNION_DISSOLVE")
                 THEN [last.pre.resources EXCEPT !.paperwork =
                         Min(10, last.pre.resources.paperwork
                                 + 1 + last.pre.unions[last.action.unionId].plausibility \div 30)]
                 ELSE [last.pre.resources EXCEPT !.patronage =
                         Min(20, last.pre.resources.patronage
                                 + 1 + last.pre.unions[last.action.unionId].loyalty \div 25)]
            /\ [state EXCEPT !.unions = last.pre.unions,
                             !.resources = last.pre.resources] = last.pre

\* a removal of a member of a federation has returned the state unchanged
C19_Witness ==
  /\ RemovalTried
  /\ FederationsOf(last.pre, last.action.unionId) # {}
  /\ state = last.pre

\* C20: a cracked union stays on record as it is for the rest of the run:
\* every action other than a start or reset of the run leaves each cracked
\* union in the collection, cracked, unlicensed and with its stats, and
\* yields nothing from it.
C20_CrackedStaysOnRecord ==
  ~(Dispatched("RUN_START") \/ Dispatched("RUN_RESET"))
    => \A k \in DOMAIN last.pre.unions :
         last.pre.unions[k].isCracked
           => /\ k \in DOMAIN state.unions
              /\ state.unions[k] = last.pre.unions[k]
              /\ ~state.unions[k].isLicensed

C15_RoundTrip ==
  generators.ops > 0
    => /\ generators.outs["g3"] = generators.outs["g1"]
       /\ DrawCount(generators.op) > 0
            => getCursor(generators.cells[Cell("g3")]) = getCursor(generators.cells[Cell("g1")])

\* a generator made from a negative cursor has drawn what the first drew
C15_RoundTripWitness ==
  /\ generators.ops = MaxOps
  /\ generators.op.name = "nextInt"
  /\ generators.cells["g1"].neg
  /\ generators.outs["g3"] = generators.outs["g1"]

\* the federation rolled on its own, and the loyalties of its members
RolledFederation == state.federations[federationId(0)]
RolledLoyalties ==
  {memberUnions(RolledFederation, state.unions)[i].loyalty : i \in 1..2}

\* C12: a recognized federation gets exactly two trials and secures between
\* 0 and 2, the number of its trials that succeeded; whatever the two rolls
\* in 1..100, it secures 2 of 2 when all members have loyalty 100 and 0 of 2
\* when all have loyalty 0; a federation that is not recognized is not
\* rolled.
C12_TwoTrials ==
  electionNight.hasRolled
    => IF RolledFederation.recognition = "recognized"
       THEN /\ Len(electionNight.delegateRolls) = 1
            /\ Len(electionNight.delegateRolls[1].rolls) = 2
            /\ electionNight.delegateRolls[1].secured \in 0..2
            /\ electionNight.delegateRolls[1].secured =
                 Cardinality({i \in 1..2 : electionNight.delegateRolls[1].rolls[i]})
            /\ RolledLoyalties = {100} => electionNight.delegateRolls[1].secured = 2
            /\ RolledLoyalties = {0} => electionNight.delegateRolls[1].secured = 0
       ELSE electionNight.delegateRolls = <<>>

\* a federation of two members of loyalty 100 has secured both delegates on
\* two rolls of 100
C12_Witness ==
  /\ electionNight.hasRolled
  /\ RolledFederation.recognition = "recognized"
  /\ RolledLoyalties = {100}
  /\ generators.nextInts = <<100, 100>>
  /\ electionNight.delegateRolls[1].secured = 2

\* C11: when the election is resolved the ending is capture if and only if
\* the delegates secured in the rolls of election night are at least 6, and
\* collapse otherwise.
C11_CaptureIffSecured ==
  (Dispatched("ELECTION_RESOLVE") /\ electionNight.hasRolled)
    => /\ state.ending \in {"capture", "collapse"}
       /\ state.ending = "capture"
            <=> securedDelegates(electionNight.delegateRolls) >= DELEGATE_THRESHOLD

\* draw number n of a generator made from cursor a
DrawAt(a, n) == RngStream(a, n)[n]

\* C15: a generator made from a cursor goes on where the generator that
\* reported the cursor stood, so that the dispatches of a run, each making
\* its generator from rngCursor, draw one continuous stream: the first draw
\* of a generator made from the rngCursor that a drawing dispatch leaves is
\* the draw that follows the draws of that dispatch.
C15_ContinuousStream ==
  /\ (Dispatched("UNION_LICENSE") /\ state # last.pre)
     => RngNext(state.rngCursor) = DrawAt(last.pre.rngCursor, 2)
  /\ (ClosedCycle /\ Rolled(last.pre) # {})
     => RngNext(state.rngCursor)
          = DrawAt(last.pre.rngCursor, Cardinality(Rolled(last.pre)) + 1)

\* the footnote ids of a run state
Footnotes(s) == {s.unlockedFootnotes[i] : i \in DOMAIN s.unlockedFootnotes}

\* C21: within a run the set of unlocked footnotes only grows: every action
\* other than RUN_START and RUN_RESET leaves each footnote that was unlocked
\* before it unlocked after it.
C21_FootnotesOnlyGrow ==
  ~(Dispatched("RUN_START") \/ Dispatched("RUN_RESET"))
    => Footnotes(last.pre) \subseteq Footnotes(state)

\* a choice that unlocks a footnote is made when another is already unlocked
C21_Witness ==
  /\ Dispatched("EVENT_CHOOSE")
  /\ last.action.unlocks # Undefined
  /\ \E x \in Footnotes(last.pre) :
       \A i \in DOMAIN ValueOf(last.action.unlocks) : ValueOf(last.action.unlocks)[i] # x
  /\ Footnotes(last.pre) \subseteq Footnotes(state)
  /\ Footnotes(state) # Footnotes(last.pre)

\* C22: currentEventId is non-null only while phase is "event", and whenever
\* phase is "event" it is non-null, in every state that any sequence of
\* actions reaches.
C22_EventIdIffEventPhase ==
  (state.currentEventId # Null) <=> (state.phase = "event")

\* C23: ending is non-null exactly when phase is "ended", in every reachable
\* state.
C23_EndingIffEnded ==
  (state.ending # Null) <=> (state.phase = "ended")

\* C24: a federation, once created, stays in the collection with the same id,
\* name, member list, delegate count, recognition and visibility whatever
\* action follows, later FEDERATION_CREATE actions included, until RUN_START
\* or RUN_RESET.
C24_FederationPersists ==
  ~(Dispatched("RUN_START") \/ Dispatched("RUN_RESET"))
    => \A k \in DOMAIN last.pre.federations :
         /\ k \in DOMAIN state.federations
         /\ state.federations[k] = last.pre.federations[k]

\* C28: EVENT_DRAW changes only phase, to "event", and currentEventId, to the
\* id of the action: resources, unions, federations, cycle, rngCursor,
\* eventHistory, unlockedFootnotes and every other field stay as they were.
C28_EventDrawFrame ==
  Dispatched("EVENT_DRAW")
    => /\ state.phase = "event"
       /\ state.currentEventId = last.action.eventId
       /\ \A f \in DOMAIN state \ {"phase", "currentEventId"} :
            state[f] = last.pre[f]

\* an event is drawn in a run that has unions on record
C28_Witness ==
  /\ Dispatched("EVENT_DRAW")
  /\ last.pre.phase = "playing"
  /\ last.pre.currentEventId = Null
  /\ DOMAIN last.pre.unions # {}
  /\ state.phase = "event"
  /\ state.currentEventId = "e1"

\* the chance the licence roll of the last dispatch was compared with
LicenseChanceTried ==
  Min(95, 30 + (last.pre.unions[last.action.unionId].plausibility * 6) \div 10)

\* C29: a UNION_LICENSE whose roll fails leaves unions and federations
\* unchanged, takes exactly 1 paperwork, adds 3 to auditRisk clamped at 100
\* and advances rngCursor by the one draw; a UNION_LICENSE of a missing,
\* licensed or cracked union, or with paperwork below 1, returns the state
\* unchanged and so consumes no randomness.
C29_FailedLicense ==
  /\ (LicenseTried /\ LicenseRoll(last.pre) > LicenseChanceTried)
       => /\ state.unions = last.pre.unions
          /\ state.federations = last.pre.federations
          /\ state.resources =
               [last.pre.resources EXCEPT
                  !.paperwork = last.pre.resources.paperwork - 1,
                  !.auditRisk = Min(100, last.pre.resources.auditRisk + 3)]
          /\ state.rngCursor = CursorAfter(last.pre.rngCursor, 1)
          /\ state.rngCursor # last.pre.rngCursor
  /\ (Dispatched("UNION_LICENSE") /\ ~LicenseTried) => state = last.pre

\* a licence roll has failed with auditRisk within 3 of its maximum
C29_Witness ==
  /\ LicenseTried
  /\ LicenseRoll(last.pre) > LicenseChanceTried
  /\ last.pre.resources.auditRisk > 97
  /\ state.resources.auditRisk = 100
  /\ state.resources.paperwork = last.pre.resources.paperwork - 1

\* a licence has been refused to a union that holds one, at no cost
C29_RefusedWitness ==
  /\ Dispatched("UNION_LICENSE")
  /\ last.action.unionId \in DOMAIN last.pre.unions
  /\ last.pre.unions[last.action.unionId].isLicensed
  /\ last.pre.resources.paperwork >= 1
  /\ state = last.pre

Measure(s, k) ==
  CASE k \in {"patronageMin", "patronageMax"} -> s.resources.patronage
    [] k \in {"legitimacyMin", "legitimacyMax"} -> s.resources.legitimacy
    [] k \in {"auditRiskMin", "auditRiskMax"} -> s.resources.auditRisk
    [] k \in {"streetHeatMin", "streetHeatMax"} -> s.resources.streetHeat
    [] k \in {"cycleMin", "cycleMax"} -> s.cycle
    [] k = "federationCountMin" -> Cardinality(DOMAIN s.federations)
    [] k = "unionCountMin" -> Cardinality(DOMAIN s.unions)

MaxKeys ==
  {"patronageMax", "legitimacyMax", "auditRiskMax", "streetHeatMax", "cycleMax"}

\* every threshold present in the conditions is met, the threshold itself
\* included
Satisfied(conditions, s) ==
  conditions # Undefined
    => \A k \in DOMAIN ValueOf(conditions) :
         IF k \in MaxKeys
         THEN Measure(s, k) <= ValueOf(conditions)[k]
         ELSE Measure(s, k) >= ValueOf(conditions)[k]

\* the ids of a list of events or choices
ReturnedIds(list) == {list[i].id : i \in DOMAIN list}

\* C26: an event is returned by getEligibleEvents exactly when all of its
\* own present thresholds are met inclusively by the state and
\* getEligibleChoices returns at least one of its choices for that state,
\* the choices returned being those whose thresholds are met; so an event
\* with a failing threshold or without an eligible choice is never returned,
\* and an event without conditions whose choices have none always is.
C26_EligibleEvents ==
  Dispatched("getEligibleEvents")
    => \A i \in DOMAIN content.events :
         /\ content.events[i].id \in ReturnedIds(last.eligible)
              <=> /\ Satisfied(content.events[i].conditions, last.pre)
                  /\ last.choices[i] # <<>>
         /\ \A j \in DOMAIN content.events[i].choices :
              content.events[i].choices[j].id \in ReturnedIds(last.choices[i])
                <=> Satisfied(content.events[i].choices[j].conditions, last.pre)
         /\ (/\ content.events[i].conditions = Undefined
             /\ \A j \in DOMAIN content.events[i].choices :
                  content.events[i].choices[j].conditions = Undefined)
              => content.events[i].id \in ReturnedIds(last.eligible)

\* with patronage on its threshold the event that asks for that minimum is
\* returned and so is the one that asks for that maximum; past the cycle
\* threshold the event that asks for that maximum is not returned, nor is
\* the event without conditions whose choices both ask for it, while the
\* event that has one choice left is
C26_Witness ==
  /\ Dispatched("getEligibleEvents")
  /\ last.pre.resources.patronage = Thresholds.patronageMin
  /\ last.pre.cycle > Thresholds.cycleMax
  /\ "patronageMin" \in ReturnedIds(last.eligible)
  /\ "patronageMax" \in ReturnedIds(last.eligible)
  /\ "open" \in ReturnedIds(last.eligible)
  /\ "cycleMax" \notin ReturnedIds(last.eligible)
  /\ "deadend" \notin ReturnedIds(last.eligible)
  /\ last.pre.resources.legitimacy > Thresholds.legitimacyMax
  /\ last.pre.cycle >= Thresholds.cycleMin
  /\ "half" \in ReturnedIds(last.eligible)

\* the advance control of the Dashboard has been used in a run that is on
\* and has not ended
AdvancePressed ==
  /\ last.action.type \in {"handleAdvanceTurn", "EVENT_DRAW"}
  /\ last.pre.phase = "playing"

\* C25: from every reachable state with phase "playing" the advance control
\* of the shell closes the cycle: it takes the run to phase "event", or,
\* when no event is eligible, it makes the TURN_ADVANCE step, which leaves
\* the next cycle, the election or the end of the run.
C25_AdvanceClosesCycle ==
  AdvancePressed
    => \/ state.phase = "event"
       \/ state = ReduceTurnAdvance(last.pre)

\* the resources that the cycle end of the last dispatch started from: those
\* of the state before a TURN_ADVANCE, those carrying the choice's effects
\* in an EVENT_CHOOSE
BeforeCycleEnd ==
  IF Dispatched("EVENT_CHOOSE") THEN Chosen ELSE last.pre.resources

C31_EmptyWitness ==
  /\ CycleEnded
  /\ BeforeCycleEnd.paperwork = 0
  /\ state.resources.paperwork = 6

\* a value held within 0..max
Bounded(value, max) == IF value < 0 THEN 0 ELSE IF value > max THEN max ELSE value

\* the unions of s that carry the tag compliant or the tag shell, whatever
\* their licence and whether or not they have cracked
Shells(s) ==
  {k \in DOMAIN s.unions :
     \E i \in 1..Len(s.unions[k].tags) : s.unions[k].tags[i] \in {"compliant", "shell"}}

\* the unions that cracked in the last dispatch
NewlyCracked ==
  {k \in DOMAIN state.unions :
     /\ k \in DOMAIN last.pre.unions
     /\ state.unions[k].isCracked
     /\ ~last.pre.unions[k].isCracked}

\* the upkeep deltas of the claim, from the counts of s and the street heat
\* the cycle end started from
AuditRiskUpkeep(s) ==
  Cardinality(DOMAIN s.unions) \div 5 + Cardinality(DOMAIN s.federations)
    + Cardinality(Shells(s))
PatronageUpkeep(s) == 7 + getTotalDelegates(s)
StreetHeatUpkeep(streetHeat) == IF streetHeat > 0 THEN -2 ELSE 0
LegitimacyUpkeep(s) ==
  IF Cardinality(Shells(s)) > 2 THEN -(Cardinality(Shells(s)) - 2) ELSE 0

RolledOrder(s) == SelectSeq(KeyOrder(DOMAIN s.unions), LAMBDA k : k \in Rolled(s))

\* the place of union k among the rolled ones
RollIndex(s, k) == CHOOSE n \in 1..Len(RolledOrder(s)) : RolledOrder(s)[n] = k

\* the roll of union k: the draw of its own place in the stream of the
\* generator made from the cursor of s
CrackRoll(s, k) ==
  RngInt(RngStream(s.rngCursor, RollIndex(s, k))[RollIndex(s, k)], 1, 100)

\* the crack risk of the claim
CrackRisk(union) ==
  IF 40 - (union.integrity * 35) \div 100 > 5
  THEN 40 - (union.integrity * 35) \div 100 ELSE 5

\* the unions of s whose roll is at most their risk
CrackedByRoll(s) == {k \in Rolled(s) : CrackRoll(s, k) <= CrackRisk(s.unions[k])}

\* union k went through the last cycle end with this roll against this risk
RolledAs(k, roll, risk) ==
  /\ roll \in 1..100
  /\ risk \in 5..40
  /\ state.unions[k] =
       IF roll <= risk
       THEN [last.pre.unions[k] EXCEPT !.isCracked = TRUE, !.isLicensed = FALSE]
       ELSE last.pre.unions[k]

Named(s) == s.unions[last.action.unionId]

\* the conditions on which UNION_INCUBATE returns the state it was given
IncubateRefused ==
  \/ last.action.unionId \notin DOMAIN last.pre.unions
  \/ Named(last.pre).isIncubated
  \/ Named(last.pre).isCracked
  \/ last.pre.resources.patronage < 2

\* the stats of the union after an incubation in the mode of the action
IncubatedStats ==
  IF last.action.mode = "paperwork"
  THEN /\ Named(state).plausibility = Bounded(Named(last.pre).plausibility + 15, 100)
       /\ Named(state).integrity = Bounded(Named(last.pre).integrity + 10, 100)
       /\ Named(state).loyalty = Bounded(Named(last.pre).loyalty - 10, 100)
       /\ state.resources.streetHeat = Bounded(last.pre.resources.streetHeat + 2, 100)
  ELSE /\ Named(state).loyalty = Bounded(Named(last.pre).loyalty + 15, 100)
       /\ Named(state).integrity = Bounded(Named(last.pre).integrity + 10, 100)
       /\ Named(state).plausibility = Bounded(Named(last.pre).plausibility - 10, 100)
       /\ state.resources.streetHeat = last.pre.resources.streetHeat

\* C34: UNION_INCUBATE returns the state unchanged when the union is
\* missing, already incubated or cracked, or patronage is below 2; otherwise
\* it takes exactly 2 patronage, sets isIncubated and the mode chosen and
\* moves the stats of that mode, each held in 0..100; from then on no
\* dispatch changes the isIncubated flag or the mode of a union on record.
C34_IncubatedOnce ==
  /\ Dispatched("UNION_INCUBATE") =>
       IF IncubateRefused THEN state = last.pre
       ELSE /\ state.resources.patronage = last.pre.resources.patronage - 2
            /\ Named(state).isIncubated
            /\ Named(state).incubationMode = last.action.mode
            /\ IncubatedStats
  /\ \A k \in DOMAIN last.pre.unions \cap DOMAIN state.unions :
       last.pre.unions[k].isIncubated =>
         /\ state.unions[k].isIncubated
         /\ state.unions[k].incubationMode = last.pre.unions[k].incubationMode

\* a paperwork incubation that stopped plausibility at 100
C34_Witness ==
  /\ Dispatched("UNION_INCUBATE")
  /\ ~IncubateRefused
  /\ last.action.mode = "paperwork"
  /\ Named(last.pre).plausibility > 85
  /\ Named(state).plausibility = 100
  /\ state.resources.patronage = last.pre.resources.patronage - 2

\* an incubated union was named again in the other mode, with patronage
\* to pay for it, and kept its mode
C34_AgainWitness ==
  /\ Dispatched("UNION_INCUBATE")
  /\ last.action.unionId \in DOMAIN last.pre.unions
  /\ Named(last.pre).isIncubated
  /\ last.pre.resources.patronage >= 2
  /\ Named(last.pre).incubationMode # last.action.mode
  /\ Named(state).incubationMode = Named(last.pre).incubationMode

\* C35: every union on record has plausibility, loyalty and integrity in
\* 0..100 and a maintenanceCost of 0 or more, whatever its archetype and
\* whatever incubation it went through.
C35_StatsInBounds ==
  \A k \in DOMAIN state.unions :
    /\ state.unions[k].plausibility \in 0..100
    /\ state.unions[k].loyalty \in 0..100
    /\ state.unions[k].integrity \in 0..100
    /\ state.unions[k].maintenanceCost >= 0

\* an incubated union whose integrity was stopped at 100 from 95
C35_Witness ==
  /\ Dispatched("UNION_INCUBATE")
  /\ ~IncubateRefused
  /\ Named(last.pre).integrity = 95
  /\ Named(state).integrity = 100

\* an incubated union whose loyalty came down to 0
C35_LowWitness ==
  /\ Dispatched("UNION_INCUBATE")
  /\ ~IncubateRefused
  /\ Named(state).loyalty = 0

\* the last dispatch began a run
RunBegan == Dispatched("RUN_START") \/ Dispatched("RUN_RESET")

\* C36: the cycle counter is at least 1 and at most maxCycles, which is 5;
\* within a run a dispatch leaves it as it was or adds one to it, also a
\* TURN_ADVANCE or an EVENT_CHOOSE sent after the last cycle.
C36_CycleInRange ==
  /\ state.maxCycles = 5
  /\ state.cycle \in 1..state.maxCycles
  /\ ~RunBegan => state.cycle \in {last.pre.cycle, last.pre.cycle + 1}

\* a TURN_ADVANCE or an EVENT_CHOOSE sent in the last cycle once the phase
\* was election or ended
C36_Witness ==
  /\ Dispatched("TURN_ADVANCE") \/ Dispatched("EVENT_CHOOSE")
  /\ last.pre.phase \in {"election", "ended"}
  /\ last.pre.cycle = 5
  /\ state.cycle = 5

\* the last dispatch was one of the two that close a cycle, and not a
\* choice whose effects lose the run
Closing ==
  \/ Dispatched("TURN_ADVANCE")
  \/ Dispatched("EVENT_CHOOSE") /\ ~LoseHolds(Chosen)

\* C37: a TURN_ADVANCE or EVENT_CHOOSE sent while cycle = maxCycles moves to
\* phase election and applies no upkeep, no crack check, no cycle increment
\* and no reset of the generation flag; sent before, it applies one cycle
\* end; so these dispatches reach the election only from cycle maxCycles,
\* after maxCycles - 1 cycle ends.
C37_ElectionWithoutUpkeep ==
  /\ (Closing /\ last.pre.cycle >= last.pre.maxCycles) =>
       /\ state.phase = "election"
       /\ state.cycle = last.pre.cycle
       /\ state.resources = BeforeCycleEnd
       /\ state.unions = last.pre.unions
       /\ state.rngCursor = last.pre.rngCursor
       /\ state.unionsGeneratedInCycle = last.pre.unionsGeneratedInCycle
  /\ (Closing /\ last.pre.cycle < last.pre.maxCycles) =>
       /\ state.cycle = last.pre.cycle + 1
       /\ state.phase # "election"
  /\ (Closing /\ state.phase = "election") =>
       state.cycle = state.maxCycles

\* an EVENT_CHOOSE in cycle 5 that went to the election with the generation
\* flag set, a licensed union to roll for and paperwork away from 6
C37_Witness ==
  /\ Dispatched("EVENT_CHOOSE")
  /\ last.pre.cycle = 5
  /\ last.pre.phase # "election"
  /\ state.phase = "election"
  /\ last.pre.unionsGeneratedInCycle
  /\ Rolled(last.pre) # {}
  /\ state.resources.paperwork # 6

\* a TURN_ADVANCE in cycle 5 that went to the election in the same way
C37_AdvanceWitness ==
  /\ Dispatched("TURN_ADVANCE")
  /\ last.pre.cycle = 5
  /\ last.pre.phase = "playing"
  /\ state.phase = "election"
  /\ last.pre.unionsGeneratedInCycle
  /\ Rolled(last.pre) # {}
  /\ state.resources.paperwork # 6

\* the last dispatch was a FEDERATION_CREATE that the reducer accepted
Created == Dispatched("FEDERATION_CREATE") /\ state # last.pre

\* the unions that the ids of the last action name
NamedUnions(s) ==
  {s.unions[last.action.unionIds[i]] :
     i \in {j \in DOMAIN last.action.unionIds : last.action.unionIds[j] \in DOMAIN s.unions}}

\* C38: no union is both cracked and licensed, and no FEDERATION_CREATE
\* that names a cracked union is accepted.
C38_CrackedNotLicensed ==
  /\ \A k \in DOMAIN state.unions :
       state.unions[k].isCracked => ~state.unions[k].isLicensed
  /\ Created => \A u \in NamedUnions(last.pre) : ~u.isCracked

\* a FEDERATION_CREATE that could be paid for was refused for the cracked
\* union among the unions it named, all of them free and the others licensed
C38_Witness ==
  /\ Dispatched("FEDERATION_CREATE")
  /\ Len(last.action.unionIds) >= 2
  /\ \A i \in DOMAIN last.action.unionIds :
       /\ last.action.unionIds[i] \in DOMAIN last.pre.unions
       /\ FederationsOf(last.pre, last.action.unionIds[i]) = {}
  /\ \E u \in NamedUnions(last.pre) : u.isCracked
  /\ \A u \in NamedUnions(last.pre) : u.isCracked \/ u.isLicensed
  /\ last.pre.resources.paperwork >= 2
  /\ last.pre.resources.patronage >= 3
  /\ state = last.pre

\* the ids that the federations of s list as members
MemberIdsOf(s) ==
  UNION {{s.federations[f].unionIds[i] : i \in DOMAIN s.federations[f].unionIds} :
           f \in DOMAIN s.federations}

\* C39: every id in the member list of every federation is a key of the
\* union collection, whatever dissolutions, reassignments, crackings and
\* federation creations have taken place.
C39_MembersOnRecord == MemberIdsOf(state) \subseteq DOMAIN state.unions

\* a member of a federation was named by a UNION_REASSIGN and is on record
C39_Witness ==
  /\ Dispatched("UNION_REASSIGN")
  /\ last.action.unionId \in MemberIdsOf(last.pre)
  /\ last.action.unionId \in DOMAIN state.unions
  /\ MemberIdsOf(state) # {}

\* a member of a federation has cracked and is on record
C39_CrackedWitness ==
  /\ \E k \in MemberIdsOf(state) : k \in NewlyCracked

\* C40: an accepted FEDERATION_CREATE leaves one federation more than there
\* were, under an id that no federation had, and total delegates of twice
\* the number of federations, however quickly the creations follow each
\* other.
C40_CreateAddsOne ==
  Created =>
    /\ Cardinality(DOMAIN state.federations)
         = Cardinality(DOMAIN last.pre.federations) + 1
    /\ DOMAIN state.federations \ DOMAIN last.pre.federations # {}
    /\ getTotalDelegates(state) = 2 * Cardinality(DOMAIN state.federations)

====
